---- MODULE Spec2Model ----
(***************************************************************************)
(* sqlbench: the benchmark runner of main.go (run, render, LoadBenchmark,  *)
(* Benchmark.Update, Query.UpdateStats, execIndividually) and the two      *)
(* measurement strategies of query_duration.go (clientDuration,            *)
(* explainDuration).                                                       *)
(*                                                                         *)
(* Units.  A time.Duration is a signed integer count of nanoseconds.  The  *)
(* Go type is 64 bits wide; TLC's integers are 32 bits wide, so the model  *)
(* keeps the two's-complement shape at DurationBits bits.  Query.Seconds   *)
(* holds float64 seconds; the model keeps every such value as the integer  *)
(* number of nanoseconds it stands for (seconds * 10^9).  Profile times    *)
(* ("Execution Time", "Planning Time") are whole milliseconds.             *)
(***************************************************************************)
EXTENDS Integers, Sequences, FiniteSets, TLC

\* ------------------------------------------------------------------ bounds

\* Passes the model lets a run make when no trigger stops it earlier.
MaxIterations == 2

\* Width of the model's time.Duration (int64 in the program).
DurationBits == 25

\* Records the buffer of the CSV writer holds (4096 bytes in the program).
BufferSize == 2

\* Statements of the longest profile the server-reported strategy is
\* applied to.
MaxStatements == 2

\* The rows of a baseline file go up to this number.
MaxRows == 4

\* The lines of a file handed to the decoder go up to this number.
MaxLines == 3

\* Where the rounding of float64 arithmetic is modelled, a float has this
\* many significant bits (float64 has 53).
MantissaBits == 4

\* Where the statistics are modelled on their own, a query has at most
\* this many samples.
MaxSamples == 3

\* ------------------------------------------------------- program constants

\* time.Millisecond, in nanoseconds.
Millisecond == 1000000

\* time.Second / 1000: nanoseconds per microsecond, the sixth decimal of "%f".
Microsecond == 1000

RECURSIVE Pow2(_)
Pow2(n) == IF n = 0 THEN 1 ELSE 2 * Pow2(n - 1)

MaxDuration == Pow2(DurationBits - 1) - 1
MinDuration == 0 - Pow2(DurationBits - 1)

\* ---------------------------------------------------------------- strings

\* A name is a sequence of characters.
NameA == <<"a">>
NameB == <<"b">>
NameInit == <<"i", "n", "i", "t">>
NameReinit == <<"r", "e", "i", "n", "i", "t">>
NameDestroy == <<"d", "e", "s", "t", "r", "o", "y">>

\* strings.HasSuffix
HasSuffix(s, suffix) ==
    /\ Len(s) >= Len(suffix)
    /\ SubSeq(s, Len(s) - Len(suffix) + 1, Len(s)) = suffix

\* strings.Split(sql, ";") on a text given as its sequence of tokens, ";"
\* being the separator token: always at least one (possibly empty) part.
RECURSIVE SplitFrom(_, _, _)
SplitFrom(sql, k, cur) ==
    IF k > Len(sql) THEN <<cur>>
    ELSE IF sql[k] = ";" THEN <<cur>> \o SplitFrom(sql, k + 1, <<>>)
    ELSE SplitFrom(sql, k + 1, Append(cur, sql[k]))

Split(sql) == SplitFrom(sql, 1, <<>>)

\* ------------------------------------------------------------ query files

\* A path is directory, file name stem and extension; the file holds SQL.
FileA == [path |-> [dir |-> "q", stem |-> NameA, ext |-> ".sql"],
          sql |-> <<"SELECT a">>]
FileB == [path |-> [dir |-> "q", stem |-> NameB, ext |-> ".sql"],
          sql |-> <<"SELECT b">>]
FileInit == [path |-> [dir |-> "q", stem |-> NameInit, ext |-> ".sql"],
             sql |-> <<"CREATE", ";", "VACUUM">>]
FileReinit == [path |-> [dir |-> "q", stem |-> NameReinit, ext |-> ".sql"],
               sql |-> <<"ANALYZE">>]
FileDestroy == [path |-> [dir |-> "q", stem |-> NameDestroy, ext |-> ".sql"],
                sql |-> <<"DROP", ";", "RESET">>]

\* The command lines (flag.Args()) the model runs.
ArgLists ==
    { <<FileInit, FileB, FileA, FileDestroy>>,
      <<FileInit, FileReinit, FileA>>,
      <<FileB>> }

\* loadQuery: name = TrimSuffix(Base(path), Ext(path)); the statistics and
\* the samples start zero/empty.
loadQuery(file) ==
    [Path |-> file.path, Name |-> file.path.stem, SQL |-> file.sql]

\* LoadQueries: one Query per path, in argument order.  A Query object is
\* identified by its position in this list.
LoadQueries(files) == [k \in 1 .. Len(files) |-> loadQuery(files[k])]

\* The null pointer.
Nil == 0

\* IsInitName with the suffix test replaced by equality.
IsInitName_Exact(name) == name = NameInit

IsInitName(name) == HasSuffix(name, NameInit)

IsDestroyName(name) == HasSuffix(name, NameDestroy)

RECURSIVE LoadBenchmarkFrom(_, _, _)
LoadBenchmarkFrom(loaded, k, b) ==
    IF k > Len(loaded) THEN b
    ELSE LoadBenchmarkFrom(loaded, k + 1,
            IF IsInitName(loaded[k].Name) THEN [b EXCEPT !.Init = k]
            ELSE IF IsDestroyName(loaded[k].Name) THEN [b EXCEPT !.Destroy = k]
            ELSE [b EXCEPT !.Queries = Append(@, k)])

\* LoadBenchmark: the last *init file is Init, the last *destroy file is
\* Destroy, every other file is a benchmark query, in argument order.
LoadBenchmark(files) ==
    LoadBenchmarkFrom(LoadQueries(files), 1,
                      [Init |-> Nil, Queries |-> <<>>, Destroy |-> Nil])

\* ----------------------------------------------------------------- errors

\* An error value; NoErr is the nil error.  Type and Time are the fields
\* of negativeTimeError and stay empty/zero for every other error.
Err(kind) == [kind |-> kind, Type |-> "", Time |-> 0]

NoErr == Err("nil")

negativeTimeError(type, time) ==
    [kind |-> "negativeTimeError", Type |-> type, Time |-> time]

\* One result of a bound closure: (time.Duration, error).
Result(d, err) == [d |-> d, err |-> err]

\* ------------------------------------------------- measurement strategies

\* time.Duration(float64(time.Millisecond) * totalTime): exact while the
\* product fits the integer type; a value that does not fit converts to an
\* implementation-dependent result (the smallest integer on amd64, the
\* largest on arm64).
ToDuration(totalTime) ==
    IF totalTime <= MaxDuration \div Millisecond
    THEN {totalTime * Millisecond}
    ELSE {MinDuration, MaxDuration}

\* The smallest whole millisecond count that does not fit a Duration.
HugeTime == MaxDuration \div Millisecond + 1

\* What the server answers to EXPLAIN (ANALYZE, FORMAT JSON): the row scan
\* fails, or the JSON does not parse, or it parses to a list of statements
\* with an "Execution Time" and a "Planning Time" each.
ExecutionTimes == {-1, 1, HugeTime}
PlanningTimes == {-1, 1}

Statement(e, p) == [ExecutionTime |-> e, PlanningTime |-> p]

ExplainReplies ==
    {[scan |-> "error", json |-> "", queries |-> <<>>],
     [scan |-> "ok", json |-> "invalid", queries |-> <<>>],
     [scan |-> "ok", json |-> "valid", queries |-> <<>>],
     [scan |-> "ok", json |-> "valid",
      queries |-> <<Statement(1, 1), Statement(1, 1)>>]}
    \cup {[scan |-> "ok", json |-> "valid", queries |-> <<Statement(e, p)>>] :
            e \in ExecutionTimes, p \in PlanningTimes}

\* explainDuration returning the execution time whatever includePlanning.
explainDuration_PlanningIgnored(reply, includePlanning) ==
    IF reply.scan # "ok" THEN {Result(0, Err("scan"))}
    ELSE IF reply.json # "valid" THEN {Result(0, Err("unmarshal"))}
    ELSE IF Len(reply.queries) # 1 THEN {Result(0, Err("bad json"))}
    ELSE LET executionTime == reply.queries[1].ExecutionTime
             planningTime == reply.queries[1].PlanningTime
         IN  IF executionTime < 0
             THEN {Result(0, negativeTimeError("Execution", executionTime))}
             ELSE IF planningTime < 0
             THEN {Result(0, negativeTimeError("Planning", planningTime))}
             ELSE {Result(d, NoErr) : d \in ToDuration(executionTime)}

\* explainDuration looking at the planning time only when it is included.
explainDuration_PlanningUnchecked(reply, includePlanning) ==
    IF reply.scan # "ok" THEN {Result(0, Err("scan"))}
    ELSE IF reply.json # "valid" THEN {Result(0, Err("unmarshal"))}
    ELSE IF Len(reply.queries) # 1 THEN {Result(0, Err("bad json"))}
    ELSE LET executionTime == reply.queries[1].ExecutionTime
             planningTime == reply.queries[1].PlanningTime
             totalTime == IF includePlanning
                          THEN executionTime + planningTime
                          ELSE executionTime
         IN  IF executionTime < 0
             THEN {Result(0, negativeTimeError("Execution", executionTime))}
             ELSE IF includePlanning /\ planningTime < 0
             THEN {Result(0, negativeTimeError("Planning", planningTime))}
             ELSE {Result(d, NoErr) : d \in ToDuration(totalTime)}

\* explainDuration reading the first statement of any non-empty profile.
explainDuration_FirstStatement(reply, includePlanning) ==
    IF reply.scan # "ok" THEN {Result(0, Err("scan"))}
    ELSE IF reply.json # "valid" THEN {Result(0, Err("unmarshal"))}
    ELSE IF Len(reply.queries) = 0 THEN {Result(0, Err("bad json"))}
    ELSE LET executionTime == reply.queries[1].ExecutionTime
             planningTime == reply.queries[1].PlanningTime
             totalTime == IF includePlanning
                          THEN executionTime + planningTime
                          ELSE executionTime
         IN  IF executionTime < 0
             THEN {Result(0, negativeTimeError("Execution", executionTime))}
             ELSE IF planningTime < 0
             THEN {Result(0, negativeTimeError("Planning", planningTime))}
             ELSE {Result(d, NoErr) : d \in ToDuration(totalTime)}

\* The closure explainDuration returns, applied to one server reply: the
\* set of results the build can produce.
explainDuration(reply, includePlanning) ==
    IF reply.scan # "ok" THEN {Result(0, Err("scan"))}
    ELSE IF reply.json # "valid" THEN {Result(0, Err("unmarshal"))}
    ELSE IF Len(reply.queries) # 1 THEN {Result(0, Err("bad json"))}
    ELSE LET executionTime == reply.queries[1].ExecutionTime
             planningTime == reply.queries[1].PlanningTime
             totalTime == IF includePlanning
                          THEN executionTime + planningTime
                          ELSE executionTime
         IN  IF executionTime < 0
             THEN {Result(0, negativeTimeError("Execution", executionTime))}
             ELSE IF planningTime < 0
             THEN {Result(0, negativeTimeError("Planning", planningTime))}
             ELSE {Result(d, NoErr) : d \in ToDuration(totalTime)}

\* What the server answers to the client-timed query: QueryContext fails,
\* or draining the rows fails, or the rows are drained after `elapsed`
\* nanoseconds of (monotonic, hence non-negative) wall-clock time.
ElapsedTimes == {1 * Millisecond, 2 * Millisecond}

ClientReplies ==
    {[query |-> "error", rows |-> "", elapsed |-> 0],
     [query |-> "ok", rows |-> "error", elapsed |-> 0]}
    \cup {[query |-> "ok", rows |-> "ok", elapsed |-> t] : t \in ElapsedTimes}

\* The states a closure returned by clientDuration can be bound in: with
\* planning excluded the statement is prepared once, at binding time, and a
\* failed prepare is remembered; with planning included nothing is prepared.
ClientBindings(includePlanning) ==
    IF ~includePlanning THEN {"prepared", "prepareErr"} ELSE {"adhoc"}

\* The closure clientDuration returns, applied to one server reply.
clientDuration_StartAfterQuery(binding, reply) ==
    IF binding = "prepareErr" THEN {Result(0, Err("prepare"))}
    ELSE IF reply.query # "ok" THEN {Result(0, Err("query"))}
    ELSE IF reply.rows # "ok" THEN {Result(0, Err("rows"))}
    ELSE {Result(0, NoErr)}

clientDuration(binding, reply) ==
    IF binding = "prepareErr" THEN {Result(0, Err("prepare"))}
    ELSE IF reply.query # "ok" THEN {Result(0, Err("query"))}
    ELSE IF reply.rows # "ok" THEN {Result(0, Err("rows"))}
    ELSE {Result(reply.elapsed, NoErr)}

\* queryDurationFuncs: the registry of strategies.
queryDurationFuncs == {"client", "explain"}

\* methodFn(ctx, conn, query.SQL, *planF): the closures the factory of the
\* strategy can return.  A closure is its strategy, the planning flag it
\* was bound with and, for the client strategy, the outcome of the prepare.
methodFn(method, planF) ==
    IF method = "client"
    THEN {[method |-> "client", planF |-> planF, binding |-> b] :
            b \in ClientBindings(planF)}
    ELSE {[method |-> "explain", planF |-> planF, binding |-> "explain"]}

\* No answer: nothing was sent to the server.
NoReply == [scan |-> "", json |-> "", queries |-> <<>>]

\* What the server can answer to one call of a bound closure; a closure
\* whose prepare failed sends nothing.
Replies(fn) ==
    IF fn.method = "explain" THEN ExplainReplies
    ELSE IF fn.binding = "prepareErr" THEN {NoReply}
    ELSE ClientReplies

\* preparedFn(): every result one call of a bound closure can give when
\* the server answers with `answer`.
Call(fn, answer) ==
    IF fn.method = "client"
    THEN clientDuration(fn.binding, answer)
    ELSE explainDuration(answer, fn.planF)

\* -------------------------------------------------------------- statistics

\* A float64 quotient kept exact: num / den.
Ratio(num, den) == [num |-> num, den |-> den]

\* a < b on such quotients (den > 0).
Less(a, b) == a.num * b.den < b.num * a.den

RECURSIVE Sum(_)
Sum(seq) == IF seq = <<>> THEN 0 ELSE Head(seq) + Sum(Tail(seq))

Range(seq) == {seq[k] : k \in DOMAIN seq}

Minimum(S) == CHOOSE x \in S : \A y \in S : x <= y

Maximum(S) == CHOOSE x \in S : \A y \in S : x >= y

\* The statistics fields of a Query before the first UpdateStats.
ZeroStats ==
    [Min |-> 0, Max |-> 0, Mean |-> Ratio(0, 1), Median |-> Ratio(0, 1)]

\* stats.Median: of a sorted copy, the middle value, or the mean of the two
\* middle values of an even number of values.
Median(seconds) ==
    LET c == SortSeq(seconds, LAMBDA a, b : a < b)
        l == Len(c)
    IN  IF l % 2 = 0 THEN Ratio(c[l \div 2] + c[l \div 2 + 1], 2)
        ELSE Ratio(c[l \div 2 + 1], 1)

\* Query.UpdateStats: stats.Min / stats.Max / stats.Mean of q.Seconds; each
\* fails on an empty input, and the first failure leaves the fields as
\* they were.
UpdateStats(old, seconds) ==
    IF seconds = <<>>
    THEN [err |-> Err("empty input"), stats |-> old]
    ELSE [err |-> NoErr,
          stats |-> [Min |-> Minimum(Range(seconds)),
                     Max |-> Maximum(Range(seconds)),
                     Mean |-> Ratio(Sum(seconds), Len(seconds)),
                     Median |-> Median(seconds)]]

\* ---- the statistics in floating point

\* num / den rounded to the nearest whole number, a tie to the even one.
RoundHalfEven(num, den) ==
    LET q == num \div den
        r == num % den
    IN  IF 2 * r > den \/ (2 * r = den /\ q % 2 = 1) THEN q + 1 ELSE q

\* The float nearest to num / den (num >= 0, den > 0): the quotient is
\* scaled by a power of two into MantissaBits significant bits, rounded
\* there, and scaled back.
RECURSIVE RoundFloat(_, _)
RoundFloat(num, den) ==
    IF num = 0 THEN Ratio(0, 1)
    ELSE IF num >= den * Pow2(MantissaBits)
    THEN LET r == RoundFloat(num, 2 * den) IN Ratio(2 * r.num, r.den)
    ELSE IF num < den * Pow2(MantissaBits - 1)
    THEN LET r == RoundFloat(2 * num, den) IN Ratio(r.num, 2 * r.den)
    ELSE Ratio(RoundHalfEven(num, den), 1)

\* a + b and a / n in floating point.
FloatAdd(a, b) == RoundFloat(a.num * b.den + b.num * a.den, a.den * b.den)

FloatDiv(a, n) == RoundFloat(a.num, a.den * n)

\* stats.Sum: sum += n for every value, from 0.
RECURSIVE FloatSum(_)
FloatSum(seq) ==
    IF seq = <<>> THEN Ratio(0, 1)
    ELSE FloatAdd(FloatSum(SubSeq(seq, 1, Len(seq) - 1)),
                  Ratio(seq[Len(seq)], 1))

\* stats.Mean: the sum divided by the number of values.
FloatMean(seq) == FloatDiv(FloatSum(seq), Len(seq))

\* stats.Median: of a sorted copy, the middle value, or stats.Mean of the
\* two middle values.
FloatMedian(seq) ==
    LET c == SortSeq(seq, LAMBDA a, b : a < b)
        l == Len(c)
    IN  IF l % 2 = 0 THEN FloatMean(SubSeq(c, l \div 2, l \div 2 + 1))
        ELSE Ratio(c[l \div 2 + 1], 1)

\* Query.UpdateStats on float64 samples: as UpdateStats, with the mean and
\* the median rounded as the float64 operations round them.
UpdateStatsFloat(old, seconds) ==
    IF seconds = <<>>
    THEN [err |-> Err("empty input"), stats |-> old]
    ELSE [err |-> NoErr,
          stats |-> [Min |-> Minimum(Range(seconds)),
                     Max |-> Maximum(Range(seconds)),
                     Mean |-> FloatMean(seconds),
                     Median |-> FloatMedian(seconds)]]

\* insertionSort's inner loop: x moves left past every query whose mean
\* is greater than its own.
RECURSIVE InsertByMean(_, _, _)
InsertByMean(sorted, x, st) ==
    IF sorted = <<>> THEN <<x>>
    ELSE IF Less(st[x].Mean, st[sorted[Len(sorted)]].Mean)
    THEN Append(InsertByMean(SubSeq(sorted, 1, Len(sorted) - 1), x, st),
                sorted[Len(sorted)])
    ELSE Append(sorted, x)

RECURSIVE SortFrom(_, _, _, _)
SortFrom(list, k, sorted, st) ==
    IF k > Len(list) THEN sorted
    ELSE SortFrom(list, k + 1, InsertByMean(sorted, list[k], st), st)

\* sort.Slice(b.Queries, Mean[i] < Mean[j]): for a list of fewer than 12
\* elements sort.Slice is an insertion sort, so queries of equal mean keep
\* their order.
\* The list left in the order it has.
SortedByMean_Unsorted(list, st) == list

SortedByMean(list, st) == SortFrom(list, 1, <<>>, st)

\* Number of leading queries of the list whose UpdateStats succeeds.
RECURSIVE UpdatedPrefix(_, _, _)
UpdatedPrefix(list, secs, k) ==
    IF k > Len(list) \/ secs[list[k]] = <<>> THEN k - 1
    ELSE UpdatedPrefix(list, secs, k + 1)

\* Benchmark.Update: UpdateStats on every query in list order, stopping at
\* the first error; then the sort.
Update(list, st, secs) ==
    LET n == UpdatedPrefix(list, secs, 1)
        st2 == [q \in DOMAIN st |->
                  IF \E k \in 1 .. n : list[k] = q
                  THEN UpdateStats(st[q], secs[q]).stats ELSE st[q]]
    IN  IF n < Len(list)
        THEN [err |-> Err("empty input"), Queries |-> list, stats |-> st2]
        ELSE [err |-> NoErr, Queries |-> SortedByMean(list, st2), stats |-> st2]

\* -------------------------------------------------------------------- CSV

\* The text of one CSV column: the decimal text of an integer ("%d"), a
\* decimal text with six decimals ("%f", kept as the count of microseconds
\* it reads), or any other text (a sequence of strings).
IntText(n) == [kind |-> "int", num |-> n, word |-> <<>>]

FloatText(micros) == [kind |-> "float", num |-> micros, word |-> <<>>]

WordText(w) == [kind |-> "word", num |-> 0, word |-> w]

\* csvHeader(): the column names.
csvHeader ==
    <<WordText(<<"iteration">>), WordText(<<"query">>), WordText(<<"seconds">>)>>

\* fmt.Sprintf("%f", seconds): decimal text with six decimals: the count
\* of microseconds nearest to the value.
FormatSeconds(seconds) ==
    IF seconds >= 0 THEN (seconds + Microsecond \div 2) \div Microsecond
    ELSE 0 - ((0 - seconds + Microsecond \div 2) \div Microsecond)

\* MarshalRecord numbering the iterations from zero.
MarshalRecord_ZeroBased(iteration, name, seconds) ==
    <<IntText(iteration - 1), WordText(name), FloatText(FormatSeconds(seconds))>>

\* CSVRow.MarshalRecord: the three column texts of one sample.
MarshalRecord(iteration, name, seconds) ==
    <<IntText(iteration), WordText(name), FloatText(FormatSeconds(seconds))>>

\* The state of the CSV sink: w is whether csvW is non-nil, buf the records
\* held by the writer, file the records that reached the file, failed the
\* writer's sticky error, closed whether the file handle was closed.
NoCsv == [w |-> FALSE, buf |-> <<>>, file |-> <<>>, failed |-> FALSE,
          closed |-> FALSE, written |-> <<>>]

\* csv.Writer.Flush (bufio.Writer.Flush): after an earlier write error
\* nothing is written; otherwise the buffered records go to the file, or
\* (ok = FALSE) that write fails, the records are lost and the writer
\* keeps the error.  Flush returns nothing.
Flush(c, ok) ==
    IF c.failed \/ c.buf = <<>> THEN c
    ELSE IF ok THEN [c EXCEPT !.file = @ \o c.buf, !.buf = <<>>]
    ELSE [c EXCEPT !.failed = TRUE]

\* Deferred closing the file without flushing the writer.
Deferred_CloseOnly(c, ok) ==
    IF ~c.w THEN c
    ELSE [c EXCEPT !.buf = <<>>, !.closed = TRUE]

\* The deferred csvW.Flush() followed by the deferred csvFile.Close();
\* what the writer still holds when the file is closed is dropped.
Deferred(c, ok) ==
    IF ~c.w THEN c
    ELSE [Flush(c, ok) EXCEPT !.buf = <<>>, !.closed = TRUE]

\* --------------------------------------------------------------- baseline

\* The lines of a file that are records: csv.Reader skips a blank line.
Records(data) == SelectSeq(data, LAMBDA line : Len(line) > 0)

\* csv.Reader.ReadAll: the records of the file; every record must have as
\* many fields as the first one.
ReadAll(data) ==
    IF \E k \in DOMAIN Records(data) :
          Len(Records(data)[k]) # Len(Records(data)[1])
    THEN [err |-> Err("wrong number of fields"), records |-> <<>>]
    ELSE [err |-> NoErr, records |-> Records(data)]

\* checkCSVColumns: the record has as many columns as csvColumns.
checkCSVColumns(record) ==
    IF Len(record) # Len(csvHeader) THEN Err("bad number of columns") ELSE NoErr

\* CSVRow.UnmarshalRecord: strconv.ParseInt of the first column, the second
\* column as it is, strconv.ParseFloat of the third (seconds, kept in
\* nanoseconds); the first column that does not parse is the error.
UnmarshalRecord(record) ==
    IF record[1].kind # "int"
    THEN [err |-> Err("ParseInt"), row |-> <<>>]
    ELSE IF record[3].kind = "word"
    THEN [err |-> Err("ParseFloat"), row |-> <<>>]
    ELSE [err |-> NoErr,
          row |-> [Iteration |-> record[1].num,
                   Query |-> record[2].word,
                   Seconds |-> IF record[3].kind = "float"
                               THEN record[3].num * Microsecond
                               ELSE record[3].num * 1000 * Millisecond]]

\* The loop of loadCSVRows from record k on: every record is checked for
\* its number of columns; the first record must be the header; every other
\* record is unmarshalled and appended.
RECURSIVE loadCSVRowsFrom(_, _, _)
loadCSVRowsFrom(records, k, rows) ==
    IF k > Len(records) THEN [err |-> NoErr, rows |-> rows]
    ELSE IF checkCSVColumns(records[k]) # NoErr
    THEN [err |-> checkCSVColumns(records[k]), rows |-> <<>>]
    ELSE IF k = 1
    THEN IF \E c \in DOMAIN csvHeader : records[1][c] # csvHeader[c]
         THEN [err |-> Err("unexpected header column"), rows |-> <<>>]
         ELSE loadCSVRowsFrom(records, k + 1, rows)
    ELSE LET u == UnmarshalRecord(records[k])
         IN  IF u.err # NoErr THEN [err |-> u.err, rows |-> <<>>]
             ELSE loadCSVRowsFrom(records, k + 1, Append(rows, u.row))

\* loadCSVRows on the content of a file that was read.
loadCSVRows(data) ==
    LET all == ReadAll(data)
    IN  IF all.err # NoErr THEN [err |-> all.err, rows |-> <<>>]
        ELSE loadCSVRowsFrom(all.records, 1, <<>>)

\* GroupFrom with a lookup that never finds a query.
RECURSIVE GroupFrom_NoLookup(_, _, _)
GroupFrom_NoLookup(rows, k, grouped) ==
    IF k > Len(rows) THEN grouped
    ELSE GroupFrom_NoLookup(rows, k + 1,
            Append(grouped, [Name |-> rows[k].Query,
                             Seconds |-> <<rows[k].Seconds>>,
                             stats |-> ZeroStats, Updates |-> 0]))

\* loadBaseline, first loop, from row k on: the row's sample joins the
\* query of its name, which is created and appended to the list when the
\* name is seen for the first time.
RECURSIVE GroupFrom(_, _, _)
GroupFrom(rows, k, grouped) ==
    IF k > Len(rows) THEN grouped
    ELSE GroupFrom(rows, k + 1,
            IF \E j \in DOMAIN grouped : grouped[j].Name = rows[k].Query
            THEN [j \in DOMAIN grouped |->
                    IF grouped[j].Name = rows[k].Query
                    THEN [grouped[j] EXCEPT !.Seconds = Append(@, rows[k].Seconds)]
                    ELSE grouped[j]]
            ELSE Append(grouped, [Name |-> rows[k].Query,
                                  Seconds |-> <<rows[k].Seconds>>,
                                  stats |-> ZeroStats, Updates |-> 0]))

\* loadBaseline: the rows of the file grouped by query name, then one
\* UpdateStats per query (Updates counts the calls), its error ignored.
loadBaseline(data) ==
    LET loadedRows == loadCSVRows(data)
        grouped == GroupFrom(loadedRows.rows, 1, <<>>)
    IN  IF loadedRows.err # NoErr
        THEN [err |-> loadedRows.err, queries |-> <<>>]
        ELSE [err |-> NoErr,
              queries |-> [j \in DOMAIN grouped |->
                             [grouped[j] EXCEPT
                                !.stats = UpdateStats(@, grouped[j].Seconds).stats,
                                !.Updates = @ + 1]]]

\* The files given with -i in the runs of the model: one that holds the
\* header only, one that holds a sample of query "a" only, one that holds
\* samples of "b" and "a", and one without header.
BaselineFiles ==
    { <<csvHeader>>,
      <<csvHeader, MarshalRecord(1, NameA, Millisecond)>>,
      <<csvHeader, MarshalRecord(1, NameB, 2 * Millisecond),
                   MarshalRecord(1, NameA, Millisecond),
                   MarshalRecord(2, NameB, Millisecond)>>,
      <<MarshalRecord(1, NameA, Millisecond)>> }

\* ----------------------------------------------------------------- render

\* tableFields: the statistics of a query that the table shows, scaled to
\* milliseconds (the standard deviation and the percentiles are left out).
tableFields(st) ==
    LET scaled(r) == Ratio(r.num, r.den * Millisecond)
    IN  <<scaled(Ratio(st.Min, 1)), scaled(Ratio(st.Max, 1)),
          scaled(st.Mean), scaled(st.Median)>>

\* A cell of the table: a value, alone or followed by its ratio to by.
Cell(value, x, by) == [value |-> value, x |-> x, by |-> by]

\* baselineLookup[name]: the position in the baseline of the last query
\* of that name, 0 (nil) when there is none.
baselineLookup(baseline, name) ==
    IF \E b \in DOMAIN baseline : baseline[b].Name = name
    THEN Maximum({b \in DOMAIN baseline : baseline[b].Name = name})
    ELSE 0

\* renderFrom taking the first column as the reference with a baseline too.
RECURSIVE renderFrom_FirstColumn(_, _, _, _, _, _, _, _)
renderFrom_FirstColumn(list, k, baseline, loaded, st, secs, baselineFields, columns) ==
    IF k > Len(list) THEN [panic |-> FALSE, columns |-> columns]
    ELSE LET fields == tableFields(st[list[k]])
             ref == IF baselineFields = <<>> THEN fields ELSE baselineFields
             n == Len(secs[list[k]])
         IN  renderFrom_FirstColumn(list, k + 1, baseline, loaded, st, secs,
                ref,
                Append(columns,
                   [n |-> Cell(Ratio(n, 1), FALSE, Ratio(0, 1)),
                    fields |-> [j \in DOMAIN fields |->
                                  Cell(fields[j], k > 1, ref[j])]]))

\* The loop of render from column k on.  With a non-empty baseline the
\* reference is baselineLookup[query.Name], whose fields are read: a nil
\* dereference (a panic) for a query the baseline does not name; without
\* one, baselineQuery stays nil and baselineFields are the fields of the
\* first column.  The n cell has a ratio when baselineQuery is not nil,
\* a statistics cell when it is not nil or the column is not the first.
RECURSIVE renderFrom(_, _, _, _, _, _, _, _)
renderFrom(list, k, baseline, loaded, st, secs, baselineFields, columns) ==
    IF k > Len(list) THEN [panic |-> FALSE, columns |-> columns]
    ELSE LET fields == tableFields(st[list[k]])
             baselineQuery ==
                 IF Len(baseline) > 0
                 THEN baselineLookup(baseline, loaded[list[k]].Name)
                 ELSE 0
             ref == IF Len(baseline) > 0
                    THEN tableFields(baseline[baselineQuery].stats)
                    ELSE IF baselineFields = <<>> THEN fields
                    ELSE baselineFields
             n == Len(secs[list[k]])
         IN  IF Len(baseline) > 0 /\ baselineQuery = 0
             THEN [panic |-> TRUE, columns |-> <<>>]
             ELSE renderFrom(list, k + 1, baseline, loaded, st, secs, ref,
                    Append(columns,
                       [n |-> IF baselineQuery # 0
                              THEN Cell(Ratio(n, 1), TRUE,
                                        Ratio(Len(baseline[baselineQuery].Seconds), 1))
                              ELSE Cell(Ratio(n, 1), FALSE, Ratio(0, 1)),
                        fields |-> [j \in DOMAIN fields |->
                                      Cell(fields[j],
                                           k > 1 \/ baselineQuery # 0,
                                           ref[j])]]))

\* render(queries, clear, baseline): the table, one column per query in
\* list order, written to the screen (cleared first when clear is set),
\* unless the loop panics.
render(list, clear, baseline, loaded, at, st, secs) ==
    LET r == renderFrom(list, 1, baseline, loaded, st, secs, <<>>, <<>>)
    IN  IF r.panic THEN [panic |-> TRUE, out |-> <<>>]
        ELSE [panic |-> FALSE,
              out |-> <<[kind |-> "table", at |-> at, clear |-> clear,
                         headers |-> [k \in DOMAIN list |->
                                        loaded[list[k]].Name],
                         columns |-> r.columns]>>]

\* ------------------------------------------------------------------ state

VARIABLES
    cfg,          \* the parsed flags and arguments of this run
    conn,         \* the database connection of this run
    pc,           \* where run() is
    cmd,          \* index of the next init/destroy command to execute
    i,            \* the iteration counter of the outer loop
    qpos,         \* position in bench.Queries of the query being measured
    queries,      \* bench.Queries, in its current order
    Seconds,      \* Query.Seconds of every loaded query
    stats,        \* the statistics fields of every loaded query
    preparedFns,  \* query.Path -> bound closure
    reply,        \* what the server answered to the latest closure call
    baseline,     \* the baseline queries loaded from the -i file
    factoryCalls, \* per query path, the calls of methodFn made so far
    last,         \* the latest call of a bound closure and its result
    csv,          \* the CSV sink
    tickPending,  \* a value waits in drawTicker.C
    sigPending,   \* a signal waits in sigCh
    timerFired,   \* a value waits in secondsTimer.C
    exitMsg,      \* the termination reason
    err,          \* the error run() returned
    executed,     \* the commands execIndividually sent to the connection
    stdout        \* what was printed

vars == <<cfg, conn, reply, baseline, factoryCalls, pc, cmd, i, qpos, queries, Seconds, stats, preparedFns, last,
          csv, tickPending, sigPending, timerFired, exitMsg, err, executed,
          stdout>>

\* The values of -n the model runs with: no cap, and caps within the bound.
IterationCaps == {-1, 1, MaxIterations}

\* The runs of the model: every combination of strategy, planning flag,
\* silent mode, iteration cap, timer and CSV sink on every command line,
\* without -i and without -v; and, with -i and -v, the server-reported
\* strategy with a CSV sink on every command line.
Configs ==
    [args : ArgLists, method : queryDurationFuncs, planF : BOOLEAN,
     silentF : BOOLEAN, iterationsF : IterationCaps, timed : BOOLEAN,
     outCsv : BOOLEAN, verboseF : {FALSE}, inCsvF : {FALSE}, inCsv : {<<>>}]
    \cup
    [args : ArgLists, method : {"explain"}, planF : {FALSE},
     silentF : BOOLEAN, iterationsF : IterationCaps, timed : {FALSE},
     outCsv : {TRUE}, verboseF : {TRUE}, inCsvF : {TRUE}, inCsv : BaselineFiles]

loaded == LoadQueries(cfg.args)

bench == LoadBenchmark(cfg.args)

NoPath == [dir |-> "", stem |-> <<>>, ext |-> ""]

\* The value run() returns: fmt.Errorf("%s: %w", path, cause), or the
\* cause alone (prefix = NoPath), or nil.
RunErr(prefix, cause) == [prefix |-> prefix, cause |-> cause]

NoFn == [method |-> "nil", planF |-> FALSE, binding |-> ""]

NoCall == [q |-> Nil, i |-> 0, d |-> 0, err |-> NoErr]

NoMsg == [kind |-> "", n |-> 0]

\* The state of run() before the loop, for the flags of cfg.
Fresh ==
    /\ baseline = <<>>
    /\ cmd = 1
    /\ i = 0
    /\ qpos = 0
    /\ queries = LoadBenchmark(cfg.args).Queries
    /\ Seconds = [q \in DOMAIN cfg.args |-> <<>>]
    /\ stats = [q \in DOMAIN cfg.args |-> ZeroStats]
    /\ preparedFns = [path \in {cfg.args[k].path : k \in DOMAIN cfg.args} |-> NoFn]
    /\ factoryCalls = [path \in {cfg.args[k].path : k \in DOMAIN cfg.args} |-> 0]
    /\ last = NoCall
    /\ csv = NoCsv
    /\ tickPending = FALSE
    /\ sigPending = FALSE
    /\ timerFired = FALSE
    /\ exitMsg = NoMsg
    /\ err = RunErr(NoPath, NoErr)
    /\ executed = <<>>
    /\ stdout = <<>>

Init ==
    /\ cfg \in Configs
    /\ conn = "nil"
    /\ reply = NoReply
    /\ pc = "connect"
    /\ Fresh

\* return e: the deferred calls run, then run() is over.
Return(e) ==
    /\ pc' = "done"
    /\ err' = e
    /\ \E ok \in BOOLEAN : csv' = Deferred(csv, ok)

\* A panic: the deferred calls run, then the process dies.
Panic ==
    /\ pc' = "panic"
    /\ err' = RunErr(NoPath, Err("nil pointer dereference"))
    /\ \E ok \in BOOLEAN : csv' = Deferred(csv, ok)

\* ExecCommand going on to the next command after a failed one.
ExecCommand_IgnoreError(q, then) ==
    IF q = Nil
    THEN /\ pc' = then
         /\ UNCHANGED <<cmd, err, csv, executed>>
    ELSE LET cmds == Split(loaded[q].SQL)
         IN  \E ok \in BOOLEAN :
               /\ executed' = Append(executed,
                                [q |-> q, k |-> cmd, cmd |-> cmds[cmd],
                                 ok |-> ok])
               /\ IF cmd < Len(cmds)
                  THEN /\ cmd' = cmd + 1
                       /\ UNCHANGED <<pc, err, csv>>
                  ELSE /\ cmd' = 1
                       /\ pc' = then
                       /\ UNCHANGED <<err, csv>>

\* run(), lines 78-87: sql.Open and db.Conn: the connection is
\* established, or run() returns the error.  Nothing in run() closes it.
Connect ==
    /\ pc = "connect"
    /\ \E ok \in BOOLEAN :
         IF ok
         THEN /\ conn' = "open"
              /\ pc' = "init"
              /\ UNCHANGED <<err, csv>>
         ELSE /\ conn' = "nil"
              /\ Return(RunErr(NoPath, Err("connect")))
    /\ UNCHANGED <<cfg, reply, baseline, factoryCalls, cmd, i, qpos, queries,
                   Seconds, stats,
                   preparedFns, last, tickPending, sigPending, timerFired,
                   exitMsg, executed, stdout>>

\* execIndividually(ctx, conn, q), one conn.ExecContext at a time: the
\* command is sent; an error ends the run with the query's path in front.
\* `then` is where run() goes on once the last command succeeded.
ExecCommand(q, then) ==
    IF q = Nil
    THEN /\ pc' = then
         /\ UNCHANGED <<cmd, err, csv, executed>>
    ELSE LET cmds == Split(loaded[q].SQL)
         IN  \E ok \in BOOLEAN :
               /\ executed' = Append(executed,
                                [q |-> q, k |-> cmd, cmd |-> cmds[cmd],
                                 ok |-> ok])
               /\ IF ~ok
                  THEN /\ Return(RunErr(loaded[q].Path, Err("exec")))
                       /\ UNCHANGED cmd
                  ELSE IF cmd < Len(cmds)
                  THEN /\ cmd' = cmd + 1
                       /\ UNCHANGED <<pc, err, csv>>
                  ELSE /\ cmd' = 1
                       /\ pc' = then
                       /\ UNCHANGED <<err, csv>>

\* run(), line 89: the init statements.
ExecInit ==
    /\ pc = "init"
    /\ ExecCommand(bench.Init, "setup")
    /\ UNCHANGED <<cfg, conn, reply, baseline, factoryCalls, i, qpos, queries, Seconds, stats, preparedFns, last,
                   tickPending, sigPending, timerFired, exitMsg, stdout>>

\* run(), lines 93-134: the ticker, the signal channel, the timer; the
\* baseline: with -i the file is read (ioutil.ReadFile can fail) and
\* loaded, and an error ends the run; the CSV sink: os.OpenFile can fail;
\* the header goes to the writer's (empty) buffer.  Then the first pass
\* starts.
Setup ==
    /\ pc = "setup"
    /\ \E read \in BOOLEAN, opened \in BOOLEAN :
         LET b == IF cfg.inCsvF THEN loadBaseline(cfg.inCsv)
                  ELSE [err |-> NoErr, queries |-> <<>>]
         IN  IF cfg.inCsvF /\ ~read
             THEN /\ pc' = "done"
                  /\ err' = RunErr(NoPath, Err("read"))
                  /\ UNCHANGED <<baseline, csv, i, qpos>>
             ELSE IF b.err # NoErr
             THEN /\ pc' = "done"
                  /\ err' = RunErr(NoPath, b.err)
                  /\ UNCHANGED <<baseline, csv, i, qpos>>
             ELSE IF cfg.outCsv /\ ~opened
             THEN /\ pc' = "done"
                  /\ err' = RunErr(NoPath, Err("open"))
                  /\ baseline' = b.queries
                  /\ UNCHANGED <<csv, i, qpos>>
             ELSE /\ baseline' = b.queries
                  /\ csv' = IF cfg.outCsv
                            THEN [NoCsv EXCEPT !.w = TRUE, !.buf = <<csvHeader>>,
                                               !.written = <<csvHeader>>]
                            ELSE NoCsv
                  /\ i' = 1
                  /\ qpos' = 1
                  /\ pc' = IF queries = <<>> THEN "boundary" ELSE "measure"
                  /\ UNCHANGED err
    /\ UNCHANGED <<cfg, conn, reply, factoryCalls, cmd, queries, Seconds, stats,
                   preparedFns,
                   last, tickPending, sigPending, timerFired, exitMsg,
                   executed, stdout>>

\* ------------------------------------------------------- the measurement

\* IsRetried without the check of line 150.
IsRetried_Never(delta) == FALSE

\* run(), line 150: a result the loop throws away and measures again.
IsRetried(delta) == delta < 0

\* CurrentQuery ranging over the list as it was loaded.
CurrentQuery_AsLoaded(list, pos) == bench.Queries[pos]

\* run(), line 137: the query the inner loop is at.
CurrentQuery(list, pos) == list[pos]

\* PassComplete one query before the end of the list.
PassComplete_BeforeLast(list, pos) == pos >= Len(list) - 1

\* PassComplete after the first query of the list.
PassComplete_AfterFirst(list, pos) == pos >= 1

\* run(), line 137: the inner loop is over after the last query of the list.
PassComplete(list, pos) == pos >= Len(list)

\* MeasureError without the path in front.
MeasureError_NoPath(q, e) == RunErr(NoPath, e)

\* run(), line 147: the error a failed measurement ends the run with.
MeasureError(q, e) == RunErr(loaded[q].Path, e)

\* IsUnbound holding for a closure that is there too.
IsUnbound_Always(preparedFn) == TRUE

\* run(), line 138: preparedFn == nil, no closure is bound for the path.
IsUnbound(preparedFn) == preparedFn = NoFn

\* Write forgetting the record that finds the buffer full.
Write_DropWhenFull(c, record, ok) ==
    IF c.failed THEN c
    ELSE IF Len(c.buf) < BufferSize
    THEN [c EXCEPT !.buf = Append(@, record), !.written = Append(@, record)]
    ELSE Flush(c, ok)

\* csv.Writer.Write (bufio.Writer.Write): after an earlier write error the
\* call fails at once; a record the buffer has room for joins the buffer;
\* when the buffer is full it is flushed to the file first, and a failing
\* flush is the error of the call.  written keeps the records the writer
\* has taken.
Write(c, record, ok) ==
    IF c.failed THEN c
    ELSE IF Len(c.buf) < BufferSize
    THEN [c EXCEPT !.buf = Append(@, record), !.written = Append(@, record)]
    ELSE LET flushed == Flush(c, ok)
         IN  IF flushed.failed THEN flushed
             ELSE [flushed EXCEPT !.buf = <<record>>,
                                  !.written = Append(@, record)]

\* run(), lines 138-168: one turn of the innermost loop: the closure of the
\* query is looked up by path, or bound and stored; it is called; an error
\* ends the run; a negative duration is measured again; any other duration
\* is appended to the query's samples and, with a sink, written as a row.
Measure ==
    /\ pc = "measure"
    /\ LET q == CurrentQuery(queries, qpos)
           path == loaded[q].Path
       IN  \E fn \in (IF IsUnbound(preparedFns[path])
                      THEN methodFn(cfg.method, cfg.planF)
                      ELSE {preparedFns[path]}) :
           \E answer \in Replies(fn) :
           \E r \in Call(fn, answer) :
             /\ reply' = answer
             /\ preparedFns' = [preparedFns EXCEPT ![path] = fn]
             /\ factoryCalls' = IF IsUnbound(preparedFns[path])
                                THEN [factoryCalls EXCEPT ![path] = @ + 1]
                                ELSE factoryCalls
             /\ last' = [q |-> q, i |-> i, d |-> r.d, err |-> r.err]
             /\ IF r.err # NoErr
                THEN /\ Return(MeasureError(q, r.err))
                     /\ UNCHANGED <<Seconds, qpos>>
                ELSE IF IsRetried(r.d)
                THEN UNCHANGED <<Seconds, qpos, pc, err, csv>>
                ELSE /\ Seconds' = [Seconds EXCEPT ![q] = Append(@, r.d)]
                     /\ \E ok \in BOOLEAN :
                        LET written == Write(csv,
                                         MarshalRecord(i, loaded[q].Name, r.d),
                                         ok)
                        IN IF csv.w /\ written.failed
                          THEN /\ pc' = "done"
                               /\ err' = RunErr(NoPath, Err("write"))
                               /\ csv' = Deferred(written, FALSE)
                               /\ UNCHANGED qpos
                          ELSE /\ csv' = IF csv.w THEN written ELSE csv
                               /\ IF PassComplete(queries, qpos)
                                  THEN pc' = "boundary" /\ UNCHANGED qpos
                                  ELSE pc' = "measure" /\ qpos' = qpos + 1
                               /\ UNCHANGED err
    /\ UNCHANGED <<cfg, conn, baseline, cmd, i, queries, stats, tickPending,
                   sigPending, timerFired, exitMsg, executed, stdout>>

\* ------------------------------------------------------ the pass boundary

\* IterationCapReached one pass late.
IterationCapReached_Late(n, iterationsF) == n > iterationsF /\ iterationsF > 0

\* run(), line 171: the iteration cap.
IterationCapReached(n, iterationsF) == n >= iterationsF /\ iterationsF > 0

\* SelectCases with default taken although a channel is ready.
SelectCases_DefaultAlways(tick, sig, timer) ==
    {"default"} \cup {c \in {"tick", "sig", "timer"} :
                        \/ c = "tick" /\ tick
                        \/ c = "sig" /\ sig
                        \/ c = "timer" /\ timer}

\* SelectCases with the render tick taken whenever it is ready.
SelectCases_TickFirst(tick, sig, timer) ==
    LET ready == {c \in {"tick", "sig", "timer"} :
                    \/ c = "tick" /\ tick
                    \/ c = "sig" /\ sig
                    \/ c = "timer" /\ timer}
    IN  IF tick THEN {"tick"} ELSE IF ready = {} THEN {"default"} ELSE ready

\* SelectCases without the case of the signal channel.
SelectCases_NoSignal(tick, sig, timer) ==
    LET ready == {c \in {"tick", "timer"} :
                    \/ c = "tick" /\ tick
                    \/ c = "timer" /\ timer}
    IN  IF ready = {} THEN {"default"} ELSE ready

\* run(), lines 175-189: the cases the select statement can take: any one
\* of the ready channels, and default only when none is ready.
SelectCases(tick, sig, timer) ==
    LET ready == {c \in {"tick", "sig", "timer"} :
                    \/ c = "tick" /\ tick
                    \/ c = "sig" /\ sig
                    \/ c = "timer" /\ timer}
    IN  IF ready = {} THEN {"default"} ELSE ready

\* The next pass: i++ and the inner loop starts over.
NextPass ==
    /\ i < MaxIterations
    /\ i' = i + 1
    /\ qpos' = 1
    /\ pc' = IF queries' = <<>> THEN "boundary" ELSE "measure"

\* run(), lines 171-189: after a full pass, the iteration cap, then the
\* select over the ticker, the signal channel and the timer.
Boundary ==
    /\ pc = "boundary"
    /\ IF IterationCapReached(i, cfg.iterationsF)
       THEN /\ exitMsg' = [kind |-> "iterations", n |-> i]
            /\ pc' = "final"
            /\ UNCHANGED <<i, qpos, queries, stats, tickPending, sigPending,
                           timerFired, err, csv, stdout>>
       ELSE \E c \in SelectCases(tickPending, sigPending, timerFired) :
            CASE c = "tick" ->
                   /\ tickPending' = FALSE
                   /\ LET u == Update(queries, stats, Seconds) IN
                        /\ queries' = u.Queries
                        /\ stats' = u.stats
                        /\ LET r == render(queries', ~cfg.silentF, baseline,
                                           loaded, "tick", stats', Seconds)
                           IN  IF u.err # NoErr
                               THEN /\ Return(RunErr(NoPath, u.err))
                                    /\ UNCHANGED <<i, qpos, stdout>>
                               ELSE IF r.panic
                               THEN /\ Panic
                                    /\ UNCHANGED <<i, qpos, stdout>>
                               ELSE /\ stdout' = stdout \o r.out
                                    /\ NextPass
                                    /\ UNCHANGED <<err, csv>>
                   /\ UNCHANGED <<sigPending, timerFired, exitMsg>>
              [] c = "sig" ->
                   /\ sigPending' = FALSE
                   /\ exitMsg' = [kind |-> "signal", n |-> 0]
                   /\ pc' = "final"
                   /\ UNCHANGED <<i, qpos, queries, stats, tickPending,
                                  timerFired, err, csv, stdout>>
              [] c = "timer" ->
                   /\ timerFired' = FALSE
                   /\ exitMsg' = [kind |-> "seconds", n |-> 0]
                   /\ pc' = "final"
                   /\ UNCHANGED <<i, qpos, queries, stats, tickPending,
                                  sigPending, err, csv, stdout>>
              [] c = "default" ->
                   /\ UNCHANGED <<queries, stats, tickPending, sigPending,
                                  timerFired, exitMsg, err, csv, stdout>>
                   /\ NextPass
    /\ UNCHANGED <<cfg, conn, reply, baseline, factoryCalls, cmd, Seconds, preparedFns, last, executed>>

\* ------------------------------------------------------- after the loop

\* Final going on to the destroy statements without render and message.
Final_NoRender ==
    /\ pc = "final"
    /\ pc' = "destroy"
    /\ UNCHANGED <<cfg, conn, reply, baseline, factoryCalls, cmd, i, qpos, queries, Seconds, stats, preparedFns,
                   last, csv, tickPending, sigPending, timerFired, exitMsg,
                   err, executed, stdout>>

\* run(), lines 192-197: the final bench.Update, the final render and the
\* termination reason message.
Final ==
    /\ pc = "final"
    /\ LET u == Update(queries, stats, Seconds) IN
         /\ queries' = u.Queries
         /\ stats' = u.stats
         /\ LET r == render(queries', ~cfg.silentF, baseline, loaded,
                            "final", stats', Seconds)
            IN  IF u.err # NoErr
                THEN /\ Return(RunErr(NoPath, u.err))
                     /\ UNCHANGED stdout
                ELSE IF r.panic
                THEN /\ Panic
                     /\ UNCHANGED stdout
                ELSE /\ stdout' = stdout \o r.out
                                  \o <<[kind |-> "exitMsg", msg |-> exitMsg]>>
                     /\ pc' = "destroy"
                     /\ UNCHANGED <<err, csv>>
    /\ UNCHANGED <<cfg, conn, reply, baseline, factoryCalls, cmd, i, qpos, Seconds, preparedFns, last, tickPending,
                   sigPending, timerFired, exitMsg, executed>>

\* run(), line 199: the destroy statements.
ExecDestroy ==
    /\ pc = "destroy"
    /\ ExecCommand(bench.Destroy, "verbose")
    /\ UNCHANGED <<cfg, conn, reply, baseline, factoryCalls, i, qpos, queries, Seconds, stats, preparedFns, last,
                   tickPending, sigPending, timerFired, exitMsg, stdout>>

\* run(), lines 203-221: with -v the server version is queried (which can
\* fail) and printed with the text of all queries; then return nil.
Finish ==
    /\ pc = "verbose"
    /\ \E ok \in BOOLEAN :
         IF cfg.verboseF /\ ~ok
         THEN /\ Return(RunErr(NoPath, Err("version")))
              /\ UNCHANGED stdout
         ELSE /\ Return(RunErr(NoPath, NoErr))
              /\ stdout' = IF cfg.verboseF
                           THEN Append(stdout, [kind |-> "verbose"])
                           ELSE stdout
    /\ UNCHANGED <<cfg, conn, reply, baseline, factoryCalls, cmd, i, qpos, queries, Seconds, stats, preparedFns,
                   last, tickPending, sigPending, timerFired, exitMsg,
                   executed>>

\* ------------------------------------------------------- the environment

InLoop == pc \in {"measure", "boundary"}

\* Tick with a ticker that runs in silent mode too.
Tick_InSilentMode ==
    /\ InLoop
    /\ ~tickPending
    /\ tickPending' = TRUE
    /\ UNCHANGED <<cfg, conn, reply, baseline, factoryCalls, pc, cmd, i, qpos, queries, Seconds, stats, preparedFns,
                   last, csv, sigPending, timerFired, exitMsg, err, executed,
                   stdout>>

\* drawTicker fires (time.NewTicker, line 95: only when not silent); its
\* channel holds one value, further ticks are dropped.
Tick ==
    /\ InLoop
    /\ ~cfg.silentF
    /\ ~tickPending
    /\ tickPending' = TRUE
    /\ UNCHANGED <<cfg, conn, reply, baseline, factoryCalls, pc, cmd, i, qpos, queries, Seconds, stats, preparedFns,
                   last, csv, sigPending, timerFired, exitMsg, err, executed,
                   stdout>>

\* os.Interrupt is delivered (signal.Notify, line 100); sigCh holds one
\* signal, further ones are dropped.
Interrupt ==
    /\ InLoop
    /\ ~sigPending
    /\ sigPending' = TRUE
    /\ UNCHANGED <<cfg, conn, reply, baseline, factoryCalls, pc, cmd, i, qpos, queries, Seconds, stats, preparedFns,
                   last, csv, tickPending, timerFired, exitMsg, err, executed,
                   stdout>>

\* secondsTimer fires (time.NewTimer, line 105: only when -t is positive).
TimerFire ==
    /\ InLoop
    /\ cfg.timed
    /\ ~timerFired
    /\ timerFired' = TRUE
    /\ UNCHANGED <<cfg, conn, reply, baseline, factoryCalls, pc, cmd, i, qpos, queries, Seconds, stats, preparedFns,
                   last, csv, tickPending, sigPending, exitMsg, err, executed,
                   stdout>>

Next ==
    \/ Connect
    \/ ExecInit
    \/ Setup
    \/ Measure
    \/ Boundary
    \/ Final
    \/ ExecDestroy
    \/ Finish
    \/ Tick
    \/ Interrupt
    \/ TimerFire

Spec == Init /\ [][Next]_vars

\* A measurement comes to an end (recorded, or failed) instead of being
\* retried: every pass completes or aborts the run.
MeasureCompletes == Measure /\ (pc' # "measure" \/ qpos' # qpos)

\* The select takes the case of the signal channel.
SelectsSignal == Boundary /\ exitMsg'.kind = "signal"

\* The runs whose progress is checked: two benchmark queries between an
\* init and a destroy file, measured by the server-reported strategy with
\* periodic rendering and a CSV sink, under every iteration cap, with and
\* without timer, with and without baseline.
InterruptConfigs ==
    {c \in Configs : /\ c.args = <<FileInit, FileB, FileA, FileDestroy>>
                     /\ c.method = "explain"
                     /\ ~c.planF
                     /\ ~c.silentF
                     /\ c.outCsv}

FairInit == Init /\ cfg \in InterruptConfigs

\* run() is one sequential path that goes on whenever it can; the select
\* picks among its ready cases at random with equal chances, so a case
\* that is ready at boundary after boundary is taken in the end.
FairSpec ==
    /\ FairInit
    /\ [][Next]_vars
    /\ WF_vars(MeasureCompletes)
    /\ WF_vars(Boundary)
    /\ SF_vars(SelectsSignal)
    /\ WF_vars(Final)
    /\ WF_vars(ExecDestroy)
    /\ WF_vars(Finish)

\* ------------------------------------- the server-reported strategy alone

\* The times ("Execution Time", "Planning Time", in milliseconds) of the
\* profiles the strategy is applied to: negative ones, zero, small ones,
\* and the two around the largest that fits a Duration.
ProfileTimes == {-2, -1, 0, 1, HugeTime - 1, HugeTime}

\* The parsed profiles: every list of at most MaxStatements statements.
Profiles ==
    UNION {[1 .. n -> {Statement(e, p) : e \in ProfileTimes, p \in ProfileTimes}] :
             n \in 0 .. MaxStatements}

\* What the closure can be given: a failed scan, unparsable JSON, or a
\* parsed profile.
ProfileReplies ==
    {[scan |-> "error", json |-> "", queries |-> <<>>],
     [scan |-> "ok", json |-> "invalid", queries |-> <<>>]}
    \cup {[scan |-> "ok", json |-> "valid", queries |-> qs] : qs \in Profiles}

\* One benchmark query measured by the server-reported strategy, with and
\* without planning time.
ProfileConfigs ==
    {c \in Configs : /\ c.args = <<FileB>>
                     /\ c.method = "explain"
                     /\ c.silentF /\ c.iterationsF = 1 /\ ~c.timed
                     /\ ~c.outCsv /\ ~c.verboseF}

\* The closure is bound (includePlanning = cfg.planF) and about to be
\* called; the server's answer is any of ProfileReplies.
ProfileInit ==
    /\ cfg \in ProfileConfigs
    /\ conn = "open"
    /\ reply \in ProfileReplies
    /\ pc = "call"
    /\ Fresh

\* One call of the closure explainDuration returned.
Explain ==
    /\ pc = "call"
    /\ \E r \in explainDuration(reply, cfg.planF) :
         last' = [q |-> 1, i |-> 1, d |-> r.d, err |-> r.err]
    /\ pc' = "returned"
    /\ UNCHANGED <<cfg, conn, reply, baseline, factoryCalls, cmd, i, qpos, queries, Seconds,
                   stats, preparedFns, csv, tickPending, sigPending,
                   timerFired, exitMsg, err, executed, stdout>>

ProfileSpec == ProfileInit /\ [][Explain]_vars

\* ------------------------------------------------- the baseline, on its own

\* The rows a run can write within MaxIterations passes over the queries
\* "a" and "b": one row per measurement, of a duration of 1499 ns, of one
\* millisecond or of MaxRows milliseconds.
WrittenRecords ==
    {MarshalRecord(it, name, seconds) :
        it \in 1 .. MaxIterations, name \in {NameA, NameB},
        seconds \in {1499, Millisecond, MaxRows * Millisecond}}

\* Sequences of at most n such records in which, as in the file of a run,
\* the iteration never decreases and no query has two rows of one
\* iteration.
RECURSIVE WrittenUpTo(_)
WrittenUpTo(n) ==
    IF n = 0 THEN {<<>>}
    ELSE WrittenUpTo(n - 1) \cup
         UNION {{Append(records, r) :
                    r \in {record \in WrittenRecords :
                             \A k \in 1 .. n - 1 :
                                /\ records[k][1].num <= record[1].num
                                /\ ~(/\ records[k][1] = record[1]
                                     /\ records[k][2] = record[2])}} :
                 records \in {w \in WrittenUpTo(n - 1) : Len(w) = n - 1}}

\* The files a run leaves behind: the header, then its rows.
WrittenFiles == {<<csvHeader>> \o records : records \in WrittenUpTo(MaxRows)}

\* sqlbench -i FILE b.sql, with or without -o.
BaselineConfigs ==
    [args : {<<FileB>>}, method : {"explain"}, planF : {FALSE},
     silentF : {TRUE}, iterationsF : {1}, timed : {FALSE}, outCsv : BOOLEAN,
     verboseF : {FALSE}, inCsvF : {TRUE}, inCsv : WrittenFiles]

\* run() is connected, there is no init.sql, and the baseline is about to
\* be loaded.
BaselineInit ==
    /\ cfg \in BaselineConfigs
    /\ conn = "open"
    /\ reply = NoReply
    /\ pc = "setup"
    /\ Fresh

BaselineSpec == BaselineInit /\ [][Setup]_vars

\* --------------------------------------------- the strategies, on their own

\* What time.Since returns for a query that ran, on a monotonic clock of
\* nanosecond resolution: a nanosecond, a millisecond.
SinceTimes == {1, Millisecond}

\* What the closure of a strategy can be given: for the server-reported
\* strategy any of ProfileReplies; for the client-timed one nothing when
\* the statement could not be prepared, else a failed query, a failed row
\* iteration, or a query that ran for any of SinceTimes.
StrategyReplies(fn) ==
    IF fn.method = "explain" THEN ProfileReplies
    ELSE IF fn.binding = "prepareErr" THEN {NoReply}
    ELSE {[query |-> "error", rows |-> "", elapsed |-> 0],
          [query |-> "ok", rows |-> "error", elapsed |-> 0]}
         \cup {[query |-> "ok", rows |-> "ok", elapsed |-> t] : t \in SinceTimes}

\* One benchmark query, every strategy of the registry, with and without
\* planning time.
StrategyConfigs ==
    {c \in Configs : /\ c.args = <<FileB>>
                     /\ c.silentF /\ c.iterationsF = 1 /\ ~c.timed
                     /\ ~c.outCsv /\ ~c.verboseF}

\* methodFn has returned the closure of the query, which is about to be
\* called for the first time.
StrategyInit ==
    /\ cfg \in StrategyConfigs
    /\ conn = "open"
    /\ pc = "call"
    /\ baseline = <<>>
    /\ cmd = 1
    /\ i = 1
    /\ qpos = 1
    /\ queries = LoadBenchmark(cfg.args).Queries
    /\ Seconds = [q \in DOMAIN cfg.args |-> <<>>]
    /\ stats = [q \in DOMAIN cfg.args |-> ZeroStats]
    /\ preparedFns \in [{cfg.args[k].path : k \in DOMAIN cfg.args}
                          -> methodFn(cfg.method, cfg.planF)]
    /\ factoryCalls = [path \in {cfg.args[k].path : k \in DOMAIN cfg.args} |-> 1]
    /\ reply \in StrategyReplies(preparedFns[cfg.args[1].path])
    /\ last = NoCall
    /\ csv = NoCsv
    /\ tickPending = FALSE
    /\ sigPending = FALSE
    /\ timerFired = FALSE
    /\ exitMsg = NoMsg
    /\ err = RunErr(NoPath, NoErr)
    /\ executed = <<>>
    /\ stdout = <<>>

\* One call of the closure returned.
Invoke ==
    /\ pc = "call"
    /\ \E r \in Call(preparedFns[loaded[1].Path], reply) :
         last' = [q |-> 1, i |-> 1, d |-> r.d, err |-> r.err]
    /\ pc' = "returned"
    /\ UNCHANGED <<cfg, conn, reply, baseline, factoryCalls, cmd, i, qpos,
                   queries, Seconds, stats, preparedFns, csv, tickPending,
                   sigPending, timerFired, exitMsg, err, executed, stdout>>

StrategySpec == StrategyInit /\ [][Invoke]_vars

\* --------------------------------------------- the statistics, on their own

\* The sample sequences of at most n floats: whole numbers of
\* MantissaBits bits.
RECURSIVE SamplesUpTo(_)
SamplesUpTo(n) ==
    IF n = 0 THEN {<<>>}
    ELSE SamplesUpTo(n - 1) \cup
         {Append(seq, x) :
            seq \in {w \in SamplesUpTo(n - 1) : Len(w) = n - 1},
            x \in 1 .. Pow2(MantissaBits) - 1}

\* sqlbench -s -n 1 b.sql.
StatsConfigs ==
    [args : {<<FileB>>}, method : {"explain"}, planF : {FALSE},
     silentF : {TRUE}, iterationsF : {1}, timed : {FALSE}, outCsv : {FALSE},
     verboseF : {FALSE}, inCsvF : {FALSE}, inCsv : {<<>>}]

\* The query has any samples, and its statistics are about to be
\* recomputed.
StatsInit ==
    /\ cfg \in StatsConfigs
    /\ conn = "open"
    /\ reply = NoReply
    /\ pc = "update"
    /\ baseline = <<>>
    /\ cmd = 1
    /\ i = 1
    /\ qpos = 1
    /\ queries = LoadBenchmark(cfg.args).Queries
    /\ Seconds \in [DOMAIN cfg.args -> SamplesUpTo(MaxSamples)]
    /\ stats = [q \in DOMAIN cfg.args |-> ZeroStats]
    /\ preparedFns = [path \in {cfg.args[k].path : k \in DOMAIN cfg.args} |-> NoFn]
    /\ factoryCalls = [path \in {cfg.args[k].path : k \in DOMAIN cfg.args} |-> 0]
    /\ last = NoCall
    /\ csv = NoCsv
    /\ tickPending = FALSE
    /\ sigPending = FALSE
    /\ timerFired = FALSE
    /\ exitMsg = NoMsg
    /\ err = RunErr(NoPath, NoErr)
    /\ executed = <<>>
    /\ stdout = <<>>

\* One call of Query.UpdateStats returned.
Recompute ==
    /\ pc = "update"
    /\ LET u == UpdateStatsFloat(stats[1], Seconds[1])
       IN  /\ stats' = [stats EXCEPT ![1] = u.stats]
           /\ err' = RunErr(NoPath, u.err)
    /\ pc' = "updated"
    /\ UNCHANGED <<cfg, conn, reply, baseline, factoryCalls, cmd, i, qpos, queries, Seconds,
                   preparedFns, last, csv, tickPending, sigPending,
                   timerFired, exitMsg, executed, stdout>>

StatsSpec == StatsInit /\ [][Recompute]_vars

\* -------------------------------------------------- the decoder, on its own

\* Lines of a file given with -i: the header, a header with another first
\* name, a header of two columns, a row, a row whose iteration is not a
\* number, rows of two and of four columns, and a blank line.
DecodeLines ==
    { csvHeader,
      <<WordText(<<"iterations">>), WordText(<<"query">>),
        WordText(<<"seconds">>)>>,
      <<WordText(<<"iteration">>), WordText(<<"query">>)>>,
      MarshalRecord(1, NameA, Millisecond),
      <<WordText(NameA), WordText(NameA), FloatText(1)>>,
      <<IntText(1), WordText(NameA)>>,
      <<IntText(1), WordText(NameA), FloatText(1), FloatText(1)>>,
      <<>> }

\* The files of at most n such lines.
RECURSIVE FilesUpTo(_)
FilesUpTo(n) ==
    IF n = 0 THEN {<<>>}
    ELSE FilesUpTo(n - 1) \cup
         {Append(data, line) :
            data \in {f \in FilesUpTo(n - 1) : Len(f) = n - 1},
            line \in DecodeLines}

\* sqlbench -i FILE b.sql, with or without -o, for any such file.
DecodeConfigs ==
    [args : {<<FileB>>}, method : {"explain"}, planF : {FALSE},
     silentF : {TRUE}, iterationsF : {1}, timed : {FALSE}, outCsv : BOOLEAN,
     verboseF : {FALSE}, inCsvF : {TRUE}, inCsv : FilesUpTo(MaxLines)]

DecodeInit ==
    /\ cfg \in DecodeConfigs
    /\ conn = "open"
    /\ reply = NoReply
    /\ pc = "setup"
    /\ Fresh

DecodeSpec == DecodeInit /\ [][Setup]_vars

\* ================================================================ claims

\* The loop was left by a break: a termination reason is set.
LoopLeft == exitMsg # NoMsg

\* run() returned nil.
Succeeded == pc = "done" /\ err = RunErr(NoPath, NoErr)

\* What the columns of a row read: the iteration number, the query name
\* and the count of microseconds.
Columns(record) == <<record[1].num, record[2].word, record[3].num>>

\* The rows of a sequence of records that starts with the header.
RowsOf(records) ==
    IF records = <<>> THEN <<>>
    ELSE [k \in 1 .. Len(records) - 1 |-> Columns(records[k + 1])]

\* The rows written to the sink so far (header excluded), in order.
Rows == RowsOf(csv.file \o csv.buf)

\* The rows written for one query in one iteration.
RowsFor(name, iteration) ==
    {k \in DOMAIN Rows : Rows[k][1] = iteration /\ Rows[k][2] = name}

\* A destroy command was sent to the connection.
DestroyStarted == \E k \in DOMAIN executed : executed[k].q = bench.Destroy

\* The final render and the termination reason are on the output.
FinalRendered ==
    \E k \in DOMAIN stdout :
        /\ stdout[k].kind = "table"
        /\ stdout[k].at = "final"
        /\ k < Len(stdout)
        /\ stdout[k + 1].kind = "exitMsg"

\* C1: with an iteration cap N > 0 the loop never goes past pass N, and a
\* loop that stops for the cap stops after pass N exactly, every benchmark
\* query holding exactly N samples.
C1_StopsAfterExactlyNPasses ==
    /\ cfg.iterationsF > 0 => i <= cfg.iterationsF
    /\ exitMsg.kind = "iterations" =>
         /\ i = cfg.iterationsF
         /\ exitMsg.n = cfg.iterationsF
         /\ \A k \in DOMAIN queries :
              Len(Seconds[queries[k]]) = cfg.iterationsF

C1_Witness ==
    /\ Succeeded
    /\ exitMsg.kind = "iterations"
    /\ cfg.iterationsF = MaxIterations
    /\ Len(queries) = 2
    /\ \A k \in DOMAIN queries : Len(Seconds[queries[k]]) = MaxIterations

\* C2: whenever the latest call of a closure returned a negativeTimeError,
\* the run has not been aborted: it is still measuring the same query in
\* the same iteration.
C2_NegativeTimeIsRetried ==
    last.err.kind = "negativeTimeError" =>
        /\ pc = "measure"
        /\ err = RunErr(NoPath, NoErr)
        /\ i = last.i
        /\ queries[qpos] = last.q

\* C3: no sample and no seconds column of a row is negative, and a call
\* that returned a negative duration or a negativeTimeError left neither a
\* sample nor a row for its query in its iteration.
C3_NoNegativeSampleOrRow ==
    /\ \A q \in DOMAIN Seconds : \A k \in DOMAIN Seconds[q] : Seconds[q][k] >= 0
    /\ \A k \in DOMAIN Rows : Rows[k][3] >= 0
    /\ (last.d < 0 \/ last.err.kind = "negativeTimeError") =>
         /\ Len(Seconds[last.q]) = last.i - 1
         /\ RowsFor(loaded[last.q].Name, last.i) = {}

C3_Witness ==
    /\ last.err.kind = "negativeTimeError"
    /\ last.i = 2
    /\ csv.w
    /\ Len(Rows) >= 2

\* A statistics recompute has happened (the samples of the model are all
\* positive, so a recomputed mean is not zero).
Recomputed == \E k \in DOMAIN queries : stats[queries[k]] # ZeroStats

\* The names of the rows written in one iteration, in row order.
RECURSIVE NamesOfIteration(_, _)
NamesOfIteration(rows, iteration) ==
    IF rows = <<>> THEN <<>>
    ELSE (IF Head(rows)[1] = iteration THEN <<Head(rows)[2]>> ELSE <<>>)
         \o NamesOfIteration(Tail(rows), iteration)

\* The names of the first n queries of a list.
NamesOf(list, n) == [k \in 1 .. n |-> loaded[list[k]].Name]

BoundaryStep == pc = "boundary" /\ pc' # "boundary"

\* The loop stops at this boundary with a "... as requested." reason.
StopsAsRequested ==
    /\ pc' = "final"
    /\ exitMsg'.kind \in {"iterations", "seconds"}
    /\ i' = i

\* The loop stops at this boundary with the signal reason.
StopsInterrupted ==
    /\ pc' = "final"
    /\ exitMsg'.kind = "signal"
    /\ i' = i

\* C5 as stated: at a boundary where the timer has fired the loop stops
\* with a requested reason, whatever else is pending.
C5_ElapsedTimerAlwaysStops ==
    [][(BoundaryStep /\ timerFired) => StopsAsRequested]_vars

\* C5, amended: at a boundary where the timer has fired the loop stops with
\* a requested reason when the iteration cap is reached there or when
\* neither a tick nor a signal is pending; otherwise the select may take
\* any ready case, and a fired timer that is not taken stays pending.
C5_ElapsedTimerStopsUnlessOtherCaseReady ==
    [][(BoundaryStep /\ timerFired) =>
          /\ ((cfg.iterationsF > 0 /\ i >= cfg.iterationsF)
               \/ (~tickPending /\ ~sigPending)) => StopsAsRequested
          /\ StopsAsRequested \/ timerFired'
          /\ pc' = "measure" => tickPending /\ ~tickPending']_vars

\* The loop was stopped by the timer alone, at the first boundary, with no
\* tick and no signal pending.
C5_Witness ==
    /\ pc = "final"
    /\ exitMsg.kind = "seconds"
    /\ i = 1
    /\ ~tickPending
    /\ ~sigPending
    /\ ~cfg.silentF

\* C6 as stated: at a boundary where a signal is pending and no cap is
\* reached the loop stops with the signal reason, and a boundary goes on to
\* another pass only when no termination trigger is pending.
C6_PendingInterruptAlwaysStops ==
    [][BoundaryStep =>
          /\ (sigPending /\ ~timerFired
              /\ ~(cfg.iterationsF > 0 /\ i >= cfg.iterationsF)) => StopsInterrupted
          /\ pc' = "measure" => ~sigPending /\ ~timerFired]_vars

\* C6, amended: at a boundary where a signal is pending and no cap is
\* reached the loop stops with the signal reason when no tick is pending;
\* when a tick is pending too the select may take the tick instead, render
\* and start another pass, and the signal stays pending.  At a boundary
\* where the iteration cap is reached nothing is rendered.
C6_PendingInterruptStopsUnlessTickReady ==
    [][BoundaryStep =>
          /\ (sigPending /\ ~timerFired /\ ~tickPending
              /\ ~(cfg.iterationsF > 0 /\ i >= cfg.iterationsF)) => StopsInterrupted
          /\ (sigPending /\ ~StopsInterrupted) => sigPending'
          /\ (pc' = "measure" /\ (sigPending \/ timerFired)) =>
                tickPending /\ ~tickPending' /\ Len(stdout') = Len(stdout) + 1
          /\ (cfg.iterationsF > 0 /\ i >= cfg.iterationsF) =>
                pc' = "final" /\ stdout' = stdout]_vars

\* The loop was stopped by a signal alone at the first boundary of a run
\* that renders periodically.
C6_Witness ==
    /\ pc = "final"
    /\ exitMsg.kind = "signal"
    /\ i = 1
    /\ ~tickPending
    /\ ~timerFired
    /\ ~cfg.silentF

\* C7: once the loop is left with a termination reason, every benchmark
\* query holds exactly as many samples as passes were made.
C7_StopsOnlyAtPassBoundaries ==
    LoopLeft => \A k \in DOMAIN queries : Len(Seconds[queries[k]]) = i

C7_Witness ==
    /\ Succeeded
    /\ exitMsg.kind = "signal"
    /\ i = 2
    /\ Len(queries) = 2
    /\ \A k \in DOMAIN queries : Len(Seconds[queries[k]]) = 2

\* The loaded files named *init or *destroy.
SpecialFiles ==
    {q \in DOMAIN loaded : \/ HasSuffix(loaded[q].Name, NameInit)
                           \/ HasSuffix(loaded[q].Name, NameDestroy)}

\* A closure has been called.
Measured == last # NoCall

\* Every command of q went to the connection.
AllExecuted(q) ==
    \A n \in DOMAIN Split(loaded[q].SQL) :
        \E k \in DOMAIN executed : executed[k].q = q /\ executed[k].k = n

\* C8: no command of the init or destroy file is sent twice; a file named
\* *init or *destroy is never bound, measured, sampled or written as a row;
\* measuring starts only after all init commands were sent; and once a
\* destroy command was sent nothing is measured any more, while no init
\* command is sent once something was measured.
C8_InitAndDestroySurroundTheLoop ==
    /\ [](/\ \A j, k \in DOMAIN executed :
                (executed[j].q = executed[k].q /\ executed[j].k = executed[k].k)
                => j = k
          /\ \A k \in DOMAIN executed : executed[k].q \in SpecialFiles
          /\ \A q \in SpecialFiles :
                /\ Seconds[q] = <<>>
                /\ last.q # q
                /\ preparedFns[loaded[q].Path] = NoFn
                /\ \A k \in DOMAIN Rows : Rows[k][2] # loaded[q].Name
          /\ (Measured /\ bench.Init # Nil) => AllExecuted(bench.Init))
    /\ [][/\ DestroyStarted =>
               last' = last /\ Seconds' = Seconds /\ preparedFns' = preparedFns
          /\ (Measured /\ executed' # executed) =>
               executed'[Len(executed')].q = bench.Destroy /\ LoopLeft]_vars

\* A run with an init and a destroy file of two commands each came to its
\* end after two passes.
C8_Witness ==
    /\ Succeeded
    /\ bench.Init # Nil
    /\ bench.Destroy # Nil
    /\ Len(executed) = 4
    /\ i = 2
    /\ csv.w

C10_MeasurementErrorAborts ==
    last.err.kind \notin {"nil", "negativeTimeError"} =>
        /\ pc = "done"
        /\ err = RunErr(loaded[last.q].Path, last.err)
        /\ i = last.i
        /\ Len(Seconds[last.q]) = last.i - 1
        /\ RowsFor(loaded[last.q].Name, last.i) = {}
        /\ Len(Rows) <= Sum([k \in DOMAIN queries |-> Len(Seconds[queries[k]])])
        /\ ~DestroyStarted
        /\ ~FinalRendered
        /\ ~LoopLeft

\* The second query failed in the second pass, after a periodic render,
\* in a run with a CSV sink and a destroy file.
C10_Witness ==
    /\ last.err.kind = "bad json"
    /\ last.i = 2
    /\ qpos = 2
    /\ csv.w
    /\ Len(Rows) = 3
    /\ stdout # <<>>
    /\ bench.Destroy # Nil

\* An init command failed.
InitFailed ==
    \E k \in DOMAIN executed : executed[k].q = bench.Init /\ ~executed[k].ok

\* C11: once an init command failed, the run is over with that error (the
\* path of the init file in front): the failed command is the last one
\* sent, so the remaining init commands and the destroy commands are never
\* sent; no closure is bound or called, no sample is recorded, the CSV sink
\* is neither opened nor written, and nothing is rendered.
C11_InitFailureAborts ==
    InitFailed =>
        /\ pc = "done"
        /\ err = RunErr(loaded[bench.Init].Path, Err("exec"))
        /\ ~executed[Len(executed)].ok
        /\ \A k \in DOMAIN executed :
              executed[k].q = bench.Init /\ (executed[k].ok <=> k < Len(executed))
        /\ ~Measured
        /\ \A q \in DOMAIN Seconds : Seconds[q] = <<>>
        /\ \A path \in DOMAIN preparedFns : preparedFns[path] = NoFn
        /\ csv = NoCsv
        /\ ~DestroyStarted
        /\ stdout = <<>>

\* The first of two init commands failed in a run with a CSV sink and a
\* destroy file.
C11_Witness ==
    /\ InitFailed
    /\ Len(executed) = 1
    /\ Len(Split(loaded[bench.Init].SQL)) = 2
    /\ cfg.outCsv
    /\ bench.Destroy # Nil

\* The rows that reached the file (header excluded), in order.
PersistedRows == RowsOf(csv.file)

\* The number of samples recorded so far.
SamplesRecorded == Sum([q \in DOMAIN cfg.args |-> Len(Seconds[q])])

\* C12: while the loop runs with a CSV sink whose writes all succeeded, the
\* rows of all recorded samples but at most one are in the persisted file.
C12_RowPersistedBeforeNextMeasurement ==
    (csv.w /\ ~csv.failed /\ InLoop) =>
        SamplesRecorded - Len(PersistedRows) <= 1

\* run() is over: it returned, or the process died in a panic.
RunOver == pc \in {"done", "panic"}

\* C13: when the run is over, the database connection is not open any more
\* and the file handle of an opened CSV sink is closed.
C13_ResourcesReleasedAtExit ==
    RunOver =>
        /\ conn # "open"
        /\ csv.w => csv.closed

\* Every recorded sample has its row in the persisted file, and the file
\* holds no other row.
AllRowsPersisted ==
    /\ Len(PersistedRows) = SamplesRecorded
    /\ \A q \in DOMAIN Seconds : \A k \in DOMAIN Seconds[q] :
          \E n \in DOMAIN PersistedRows :
             PersistedRows[n] =
                Columns(MarshalRecord(k, loaded[q].Name, Seconds[q][k]))

WellOrdered(rows) ==
    /\ rows # <<>> => rows[1][1] = 1
    /\ \A k \in DOMAIN rows : rows[k][1] >= 1 /\ rows[k][3] >= 0
    /\ \A k \in 1 .. Len(rows) - 1 : rows[k][1] <= rows[k + 1][1]

\* C15: at every moment the rows in the persisted file, and the rows
\* written so far (those still held by the writer included), start at
\* iteration 1, are in non-decreasing order of iteration and hold no
\* negative seconds value.
C15_IterationsNonDecreasing ==
    /\ WellOrdered(PersistedRows)
    /\ WellOrdered(Rows)

\* The file of a finished run holds the rows of two passes over two
\* queries.
C15_Witness ==
    /\ RunOver
    /\ csv.closed
    /\ Len(PersistedRows) = 4
    /\ PersistedRows[2][1] = 1
    /\ PersistedRows[3][1] = 2

\* The run was stopped by the interrupt and came to its end without error:
\* the final table and the interrupt reason were printed and every destroy
\* command was sent.
GracefulInterruptStop ==
    /\ Succeeded
    /\ exitMsg.kind = "signal"
    /\ FinalRendered
    /\ \E k \in DOMAIN stdout :
          stdout[k].kind = "exitMsg" /\ stdout[k].msg.kind = "signal"
    /\ bench.Destroy # Nil => AllExecuted(bench.Destroy)

\* The run ended inside the loop: a pass did not complete.
PassAborted == RunOver /\ ~LoopLeft

\* C16 as stated: an interrupt pending while the loop runs leads, unless a
\* pass does not complete, to a run that left the loop, rendered, printed
\* the interrupt reason, executed the destroy commands and returned nil.
C16_InterruptAlwaysStopsGracefully ==
    (InLoop /\ sigPending) ~> (GracefulInterruptStop \/ PassAborted)

\* C16, amended: an interrupt pending while the loop runs stays pending
\* until the select takes it, and the loop is left in the end unless a pass
\* does not complete; the reason is the interrupt unless the iteration cap
\* or the timer stops the loop first.  A loop stopped by the interrupt
\* leads to the end of the run, and that run returned nil after the final
\* render, the interrupt reason and all destroy commands, unless the final
\* render panicked or a destroy command or the version query failed.
C16_InterruptStopsLoopUnlessCapFirst ==
    /\ (InLoop /\ sigPending) ~> (LoopLeft \/ PassAborted)
    /\ (exitMsg.kind = "signal") ~> RunOver
    /\ [][(sigPending /\ ~sigPending') =>
            (pc' = "final" /\ exitMsg'.kind = "signal")]_vars
    /\ []((LoopLeft /\ sigPending) => exitMsg.kind \in {"iterations", "seconds"})
    /\ []((RunOver /\ exitMsg.kind = "signal") =>
            \/ GracefulInterruptStop
            \/ pc = "panic" /\ ~DestroyStarted
            \/ /\ pc = "done"
               /\ FinalRendered
               /\ err.cause.kind \in {"exec", "version"})

\* A run interrupted in its second pass came to its end gracefully.
C16_Witness ==
    /\ GracefulInterruptStop
    /\ i = 2
    /\ bench.Destroy # Nil
    /\ csv.w

\* The call of the closure returned.
Returned == pc = "returned"

\* The scan succeeded and the JSON parsed.
Parsed == reply.scan = "ok" /\ reply.json = "valid"

\* C17: a parsed profile of zero or of two or more statements makes the
\* closure return an error that is not a negativeTimeError, whatever the
\* times of its statements, and no duration.
C17_NotOneStatementFails ==
    (Returned /\ Parsed /\ Len(reply.queries) # 1) =>
        /\ last.err.kind = "bad json"
        /\ last.err.kind \notin {"nil", "negativeTimeError"}
        /\ last.d = 0

\* A profile of two statements, the first with a negative execution time.
C17_Witness ==
    /\ Returned
    /\ Parsed
    /\ Len(reply.queries) = 2
    /\ reply.queries[1].ExecutionTime < 0
    /\ last.err.kind = "bad json"

\* The profile describes exactly one statement.
SingleStatement == Parsed /\ Len(reply.queries) = 1

\* C18: for a single-statement profile with a negative execution or
\* planning time the closure returns, with or without planning time
\* included, a negativeTimeError and no duration; the error names the
\* execution time and its value when that is negative, and otherwise the
\* planning time and its value.
C18_NegativeFieldIsReported ==
    (Returned /\ SingleStatement) =>
        LET e == reply.queries[1].ExecutionTime
            p == reply.queries[1].PlanningTime
        IN  /\ e < 0 => last.err = negativeTimeError("Execution", e)
            /\ (e >= 0 /\ p < 0) => last.err = negativeTimeError("Planning", p)
            /\ (e < 0 \/ p < 0) => last.d = 0
            /\ last.err.kind = "negativeTimeError" => (e < 0 \/ p < 0)

\* Planning time is not included, and the planning time alone is negative.
C18_Witness ==
    /\ Returned
    /\ SingleStatement
    /\ ~cfg.planF
    /\ reply.queries[1].ExecutionTime = 1
    /\ reply.queries[1].PlanningTime = -2
    /\ last.err = negativeTimeError("Planning", -2)

\* The total time of a single-statement profile, in milliseconds.
TotalTime ==
    IF cfg.planF
    THEN reply.queries[1].ExecutionTime + reply.queries[1].PlanningTime
    ELSE reply.queries[1].ExecutionTime

\* C19 as stated: for a single-statement profile whose execution and
\* planning times are not negative the closure returns, without error, the
\* execution time as a duration, or the sum of the two when planning time
\* is included.
C19_ReturnsExecutionPlusPlanning ==
    (/\ Returned
     /\ SingleStatement
     /\ reply.queries[1].ExecutionTime >= 0
     /\ reply.queries[1].PlanningTime >= 0) =>
        /\ last.err = NoErr
        /\ last.d \div Millisecond = TotalTime
        /\ last.d % Millisecond = 0

\* C19, amended: for a single-statement profile whose execution and
\* planning times are not negative the closure returns no error, and the
\* duration it returns is the execution time, or the sum of the two when
\* planning time is included, whenever that total fits a Duration.
C19_ReturnsTotalThatFits ==
    (/\ Returned
     /\ SingleStatement
     /\ reply.queries[1].ExecutionTime >= 0
     /\ reply.queries[1].PlanningTime >= 0) =>
        /\ last.err = NoErr
        /\ TotalTime <= MaxDuration \div Millisecond =>
              last.d = TotalTime * Millisecond

\* Planning time is included and both times are one millisecond.
C19_Witness ==
    /\ Returned
    /\ SingleStatement
    /\ cfg.planF
    /\ reply.queries[1].ExecutionTime = 1
    /\ reply.queries[1].PlanningTime = 1
    /\ last.d = 2 * Millisecond

\* ---------------------------------------------------------------- C20

\* loadBaseline has returned the baseline of the file given with -i: run()
\* is past it, or has ended on the sink that could not be opened.
BaselineLoaded ==
    /\ cfg.inCsvF
    /\ \/ pc \notin {"connect", "init", "setup", "done"}
       \/ pc = "done" /\ err.cause \in {NoErr, Err("open")}

\* The rows of the baseline file, as they were written.
WrittenRows == RowsOf(cfg.inCsv)

\* The positions of the rows written for a name, in row order.
RECURSIVE PositionsOf(_, _)
PositionsOf(name, n) ==
    IF n = 0 THEN <<>>
    ELSE IF WrittenRows[n][2] = name
    THEN Append(PositionsOf(name, n - 1), n)
    ELSE PositionsOf(name, n - 1)

\* The samples written for a name, in row order, in nanoseconds.
WrittenFor(name) ==
    LET at == PositionsOf(name, Len(WrittenRows))
    IN  [k \in DOMAIN at |-> WrittenRows[at[k]][3] * Microsecond]

\* The row in which a name is written for the first time.
FirstSeen(name) ==
    Minimum({k \in DOMAIN WrittenRows : WrittenRows[k][2] = name})

\* C20: loading as a baseline the rows written by a run yields one
\* baseline query per distinct query name, in first-seen order; each
\* group's sample sequence holds exactly the rows written for that name,
\* in row order, and each group's statistics have been computed once.
C20_BaselineGroupsRowsByName ==
    BaselineLoaded =>
        /\ {baseline[j].Name : j \in DOMAIN baseline}
             = {WrittenRows[k][2] : k \in DOMAIN WrittenRows}
        /\ \A j, k \in DOMAIN baseline :
             j < k => FirstSeen(baseline[j].Name) < FirstSeen(baseline[k].Name)
        /\ \A j \in DOMAIN baseline :
             /\ baseline[j].Seconds = WrittenFor(baseline[j].Name)
             /\ baseline[j].Updates = 1
             /\ baseline[j].stats = UpdateStats(ZeroStats, baseline[j].Seconds).stats

\* A file whose rows are b, a, b, a was loaded: two baseline queries, "b"
\* first, with two samples each in row order.
C20_Witness ==
    /\ BaselineLoaded
    /\ Len(WrittenRows) = 4
    /\ WrittenRows[1][2] = NameB /\ WrittenRows[2][2] = NameA
    /\ WrittenRows[3][2] = NameB /\ WrittenRows[4][2] = NameA
    /\ WrittenRows[1][3] # WrittenRows[3][3]
    /\ Len(baseline) = 2
    /\ baseline[1].Name = NameB
    /\ baseline[1].Seconds = <<WrittenRows[1][3] * Microsecond,
                               WrittenRows[3][3] * Microsecond>>
    /\ baseline[2].Name = NameA
    /\ Len(baseline[2].Seconds) = 2

\* ---------------------------------------------------------------- C21

\* The file given with -i was read and handed to the decoder.
Decoded == cfg.inCsvF /\ pc # "setup" /\ err.cause # Err("read")

\* The file does not follow the schema: a row that has not exactly three
\* columns, or a first row that is not the header (no first row included).
SchemaMismatch(data) ==
    \/ \E k \in DOMAIN Records(data) : Len(Records(data)[k]) # 3
    \/ Records(data) = <<>>
    \/ Records(data)[1] # csvHeader

\* C21: decoding a baseline CSV fails with an error, and returns no rows,
\* whenever any row does not have exactly three columns or the header row
\* is not exactly iteration,query,seconds (including input in which the
\* header row is absent).
C21_SchemaMismatchFails ==
    Decoded /\ SchemaMismatch(cfg.inCsv) =>
        /\ pc = "done"
        /\ err.cause \notin {NoErr, Err("open")}
        /\ baseline = <<>>
        /\ loadCSVRows(cfg.inCsv).rows = <<>>

\* ---------------------------------------------------------------- C22

\* The tables on the screen.
Tables == SelectSeq(stdout, LAMBDA o : o.kind = "table")

\* The baseline query of a name.
BaselineNamed(name) ==
    baseline[CHOOSE b \in DOMAIN baseline : baseline[b].Name = name]

\* C22: in a rendered table, with no baseline, the first column shows no
\* ratio in any row and the statistic cells of every later column show the
\* ratio of their value to the first column's value of the same row; with
\* a baseline, the cells of each column (the n row included) show the
\* ratio to the value of the baseline query of the column's name.
C22_RatioReference ==
    \A t \in DOMAIN Tables :
        LET columns == Tables[t].columns
            headers == Tables[t].headers
        IN  /\ Len(columns) = Len(headers)
            /\ \A k \in DOMAIN columns :
                 IF baseline = <<>>
                 THEN /\ k = 1 => ~columns[k].n.x
                      /\ \A j \in DOMAIN columns[k].fields :
                           IF k = 1 THEN ~columns[k].fields[j].x
                           ELSE /\ columns[k].fields[j].x
                                /\ columns[k].fields[j].by
                                     = columns[1].fields[j].value
                 ELSE /\ columns[k].n.x
                      /\ columns[k].n.by
                           = Ratio(Len(BaselineNamed(headers[k]).Seconds), 1)
                      /\ \A j \in DOMAIN columns[k].fields :
                           /\ columns[k].fields[j].x
                           /\ columns[k].fields[j].by
                                = tableFields(BaselineNamed(headers[k]).stats)[j]

\* A table of two columns without baseline: the cells of the second show
\* the ratio to the first, whose mean is another one.
C22_Witness ==
    /\ baseline = <<>>
    /\ \E t \in DOMAIN Tables :
         /\ Len(Tables[t].columns) = 2
         /\ ~Tables[t].columns[1].fields[3].x
         /\ Tables[t].columns[2].fields[3].x
         /\ Tables[t].columns[2].fields[3].by
              = Tables[t].columns[1].fields[3].value
         /\ Tables[t].columns[2].fields[3].by
              # Tables[t].columns[2].fields[3].value

\* ---------------------------------------------------------------- C23

\* The mean shown in a column of a table, in nanoseconds.
ShownMean(column) ==
    Ratio(column.fields[3].value.num,
          column.fields[3].value.den \div Millisecond)

\* C23: at every render, periodic and final, the columns are ordered by
\* mean execution time: of two consecutive columns the second never has
\* the smaller mean.
C23_ColumnsOrderedByMean ==
    \A t \in DOMAIN Tables :
        \A k \in 1 .. Len(Tables[t].columns) - 1 :
            ~Less(ShownMean(Tables[t].columns[k + 1]),
                  ShownMean(Tables[t].columns[k]))

\* A periodic table in which "a", given after "b" on the command line,
\* comes first with the smaller mean, and the final table of that run.
C23_Witness ==
    \E t, u \in DOMAIN Tables :
        /\ Tables[t].at = "tick" /\ Tables[u].at = "final"
        /\ Tables[t].headers = <<NameA, NameB>>
        /\ Less(ShownMean(Tables[t].columns[1]), ShownMean(Tables[t].columns[2]))
        /\ Len(Tables[u].columns) = 2

\* ---------------------------------------------------------------- C24

\* C24: in silent mode the statistics are rendered exactly once per
\* successful run, after the loop has terminated: no render happens while
\* the loop is running, and the screen is not cleared.
C24_SilentRendersOnceAfterLoop ==
    cfg.silentF =>
        /\ InLoop => Tables = <<>>
        /\ Len(Tables) <= 1
        /\ \A t \in DOMAIN Tables : Tables[t].at = "final" /\ ~Tables[t].clear
        /\ Succeeded => Len(Tables) = 1

\* A silent run of MaxIterations passes has ended well with one table.
C24_Witness ==
    /\ cfg.silentF
    /\ Succeeded
    /\ i = MaxIterations
    /\ Len(Tables) = 1
    /\ Tables[1].at = "final"

\* ---------------------------------------------------------------- C25

\* a <= b on quotients.
AtMost(a, b) == ~Less(b, a)

\* The statistics of the query have been recomputed from its samples.
StatsRecomputed == pc = "updated" /\ err.cause = NoErr

\* C25: for every non-empty sample sequence S the recomputed statistics
\* satisfy min(S) <= median(S) <= max(S) and min(S) <= mean(S) <= max(S).
C25_MeanAndMedianWithinRange ==
    StatsRecomputed /\ Seconds[1] # <<>> =>
        /\ AtMost(Ratio(stats[1].Min, 1), stats[1].Median)
        /\ AtMost(stats[1].Median, Ratio(stats[1].Max, 1))
        /\ AtMost(Ratio(stats[1].Min, 1), stats[1].Mean)
        /\ AtMost(stats[1].Mean, Ratio(stats[1].Max, 1))

\* ---------------------------------------------------------------- C26

\* The paths of the benchmark queries.
QueryPaths == {loaded[queries[k]].Path : k \in DOMAIN queries}

\* C26: the closure of a query is created on the query's first
\* measurement and reused afterwards: the strategy factory is invoked at
\* most once per benchmark query over a whole run (so the client-timed
\* strategy without planning prepares each statement at most once), and
\* not before the loop.
C26_FactoryOncePerQuery ==
    /\ \A path \in DOMAIN factoryCalls :
         /\ factoryCalls[path] <= 1
         /\ factoryCalls[path] = 1 <=> preparedFns[path] # NoFn
         /\ factoryCalls[path] = 1 => path \in QueryPaths
    /\ pc \in {"connect", "init", "setup"} =>
         \A path \in DOMAIN factoryCalls : factoryCalls[path] = 0

\* The client-timed strategy without planning has measured two queries in
\* MaxIterations passes, each with the statement prepared once.
C26_Witness ==
    /\ cfg.method = "client" /\ ~cfg.planF
    /\ Len(queries) = 2
    /\ i = MaxIterations
    /\ \A k \in DOMAIN queries :
         /\ Len(Seconds[queries[k]]) = MaxIterations
         /\ factoryCalls[loaded[queries[k]].Path] = 1
         /\ preparedFns[loaded[queries[k]].Path].binding = "prepared"

\* ---------------------------------------------------------------- C27

\* Every benchmark query has at least one sample.
AllSampled == \A k \in DOMAIN queries : Seconds[queries[k]] # <<>>

\* C27: the statistics recompute and the renderer are never invoked
\* before the first full pass has completed: wherever they run (at the
\* select of a pass boundary and after the loop), and once they have run,
\* every benchmark query has at least one sample, and the recompute never
\* fails on an empty input.
C27_NoRecomputeBeforeFirstPass ==
    /\ pc \in {"boundary", "final"} => AllSampled /\ i >= 1
    /\ Recomputed \/ Tables # <<>> => AllSampled
    /\ err.cause # Err("empty input")

\* The table of the first tick of a run of two queries: each has the one
\* sample of the first pass.
C27_Witness ==
    /\ Len(queries) = 2
    /\ Len(Tables) = 1
    /\ Tables[1].at = "tick"
    /\ Recomputed
    /\ \A k \in DOMAIN queries : Len(Seconds[queries[k]]) = 1

\* ---------------------------------------------------------------- C28

\* The closure that was called.
BoundFn == preparedFns[loaded[1].Path]

\* The query is valid and the server ran it: the statement was prepared
\* and the query and its rows came back, or the profile parsed to one
\* statement.
ValidQueryRan ==
    IF cfg.method = "client"
    THEN BoundFn.binding # "prepareErr" /\ reply.query = "ok" /\ reply.rows = "ok"
    ELSE SingleStatement

\* The time measured for it: the time elapsed on the client (nanoseconds),
\* or the total reported by the server (milliseconds).
MeasuredTime == IF cfg.method = "client" THEN reply.elapsed ELSE TotalTime

\* C28 as claimed: for every strategy of the registry and both values of
\* includePlanning, the bound closure called on a valid query returns no
\* error and a duration strictly greater than zero.
C28_ValidQueryPositiveDuration ==
    Returned /\ ValidQueryRan => last.err = NoErr /\ last.d > 0

\* C28 as amended: ... provided that, for the server-reported strategy,
\* no reported time is negative and the total fits a Duration: then the
\* closure returns no error and a duration that is never negative, and
\* strictly greater than zero exactly when the measured time is.
C28_ValidQueryNonNegativeDuration ==
    (/\ Returned
     /\ ValidQueryRan
     /\ cfg.method = "explain" =>
          /\ reply.queries[1].ExecutionTime >= 0
          /\ reply.queries[1].PlanningTime >= 0
          /\ TotalTime <= MaxDuration \div Millisecond) =>
        /\ last.err = NoErr
        /\ last.d >= 0
        /\ last.d > 0 <=> MeasuredTime > 0

\* The client-timed strategy on a prepared statement has returned the
\* millisecond the query took, and no error.
C28_Witness ==
    /\ Returned
    /\ cfg.method = "client" /\ ~cfg.planF
    /\ ValidQueryRan
    /\ reply.elapsed = Millisecond
    /\ last.err = NoErr
    /\ last.d = Millisecond

\* ---------------------------------------------------------------- C29

\* The names of the baseline queries.
BaselineNames == {baseline[b].Name : b \in DOMAIN baseline}

\* C29: when a non-empty baseline is supplied, rendering completes
\* normally for every set of live queries, a live query whose name does
\* not occur in the baseline included: no render panics, and every table
\* has a column for every live query.
C29_RenderCompletesWithBaseline ==
    baseline # <<>> =>
        /\ pc # "panic"
        /\ \A t \in DOMAIN Tables : Len(Tables[t].columns) = Len(queries)

\* ---------------------------------------------------------------- C30

\* The rows the writer has taken so far (header excluded), in order.
TakenRows == RowsOf(csv.written)

\* The header is the first record the writer has taken, and no other.
HeaderOnceFirst ==
    /\ csv.written # <<>>
    /\ csv.written[1] = csvHeader
    /\ \A k \in 2 .. Len(csv.written) : csv.written[k] # csvHeader

\* Rows and samples are one to one: as many rows as samples, the k-th
\* sample of a query in a row (k, name, seconds), and no two rows of one
\* iteration and name.
RowsMatchSamples ==
    /\ Len(TakenRows) = SamplesRecorded
    /\ \A q \in DOMAIN Seconds : \A k \in DOMAIN Seconds[q] :
          \E n \in DOMAIN TakenRows :
             TakenRows[n]
               = Columns(MarshalRecord(k, loaded[q].Name, Seconds[q][k]))
    /\ \A m, n \in DOMAIN TakenRows :
          (/\ TakenRows[m][1] = TakenRows[n][1]
           /\ TakenRows[m][2] = TakenRows[n][2]) => m = n

\* C30 as claimed: with a CSV sink, the header is written exactly once
\* before any row, and in every reachable state the rows written
\* correspond one to one to the samples appended so far.
C30_RowsMatchSamplesAlways ==
    csv.w => HeaderOnceFirst /\ RowsMatchSamples

\* C30 as amended: ... in every reachable state but the one a failed
\* write leaves behind, where the sample appended last has no row.
C30_RowsMatchSamplesUnlessWriteFailed ==
    csv.w =>
        /\ HeaderOnceFirst
        /\ IF err.cause = Err("write")
           THEN Len(TakenRows) = SamplesRecorded - 1
           ELSE RowsMatchSamples

\* Two queries have been measured in two passes: four samples, four rows,
\* the first of them already in the file.
C30_Witness ==
    /\ csv.w /\ ~csv.failed
    /\ pc = "boundary"
    /\ SamplesRecorded = 4
    /\ Len(TakenRows) = 4
    /\ Len(csv.file) > 1
    /\ csv.buf # <<>>

====
